---- MODULE Spec2Model ----
(***************************************************************************)
(* A model of the acquisition pipeline of c-rust-program-pairs:            *)
(*   - the branch resolver and its process-wide cache                      *)
(*     (src/src/corpus/utils/repositories.rs),                             *)
(*   - the file extractor (src/src/corpus/utils.rs),                       *)
(*   - the acquisition orchestrator and the repository cache manager       *)
(*     (src/src/corpus/downloader.rs, src/src/corpus/parser.rs).           *)
(* Strings the code takes apart (URLs, file names) are sequences of        *)
(* one-character strings, so that trimming, splitting and suffix tests are *)
(* computed as the code computes them.                                     *)
(***************************************************************************)
EXTENDS Naturals, Integers, Sequences, FiniteSets, TLC

VARIABLES
    \* ---- branch resolver (repositories.rs) ----
    BRANCH_CACHE,   \* the HashMap behind the Mutex: key -> branch
    lockHolder,     \* the threads holding the BRANCH_CACHE mutex ({} when free)
    poisoned,       \* the mutex's poison flag
    tpc,            \* each thread's position in get_repository_default_branch
    turl,           \* the url argument of each thread's call in progress
    tstart,         \* the branch cached for the call's key when the call began
    lastCall,       \* the call that finished last: its url, outcome and API request
    calls,          \* calls started so far
    \* ---- file extractor (download_files lines 288-307, utils.rs) ----
    source_files,   \* the source_paths of the ProgramSource being extracted
    xpos,           \* index of the source_files entry the loop is at
    walkState,      \* "none", "walking", "done": copy_files_from_directory
    walkDir,        \* the entry whose directory is being (was last) walked
    walkLeft,       \* files WalkDir has still to yield
    walkCopies,     \* the copies made by the current (last) walk
    xresult,        \* what download_files returned, once it has
    \* ---- the disk ----
    programs,       \* programs/: directory -> (file name -> the file copied there)
    program_directory,  \* the directory download_files copies into
    opened_repository,  \* the url whose clone download_files has opened
    repository_clones,  \* repository_clones/: cache path -> the url cloned there
    roots,              \* which of the directories programs/ and repository_clones/ exist
    \* ---- download_program_pair (downloader.rs) ----
    ppc,            \* position: "idle", "dirs", "acquire", "files"
    pair,           \* index of the ProgramPair being downloaded (0: none yet)
    side,           \* the Language of the download_files call in progress
    sideStatus,     \* per language: download_files "none" (not called), "ok", "failed"
    pairResult,     \* what download_program_pair returned, once it has
    lastAcquire,    \* the latest open-or-clone of download_files
    prevAcquire,    \* the one before it
    downloads,      \* calls of download_program_pair so far
    \* ---- download_metadata (downloader.rs, parser.rs) ----
    rpc,            \* position: "none", "start", "directory", "file", "pairs", "call", "returned"
    schema,         \* the state of METADATA_SCHEMA_FILE: "ok", "missing", "corrupt"
    directories,    \* the metadata directories of the run
    dirIdx,         \* index of the directory being read (0: the loop has not begun)
    fileIdx,        \* index of the metadata file within the directory
    pairIdx,        \* index of the pair within metadata.pairs
    metadata,       \* the pairs of the Metadata being downloaded
    parsed,         \* per metadata file: "unseen", "ok", "failed" (what parse returned)
    reported,       \* the metadata files stderr has a "Failed to parse" line for
    attempts,       \* per pair of the corpus: calls of download_program_pair for it
    failures,       \* the "Failed to download" lines on stderr so far
    fileResults,    \* what download_program_pair returned for the pairs of this file
    fileReports,    \* the names in the "Failed to download" lines for this file
    runResult,      \* what download_metadata returned, once it has
    \* ---- parse (parser.rs) ----
    mpc,            \* position in parse: "none", "read", "deserialize", "validate", "match", "returned"
    raw_metadata,   \* the JSON document of the metadata file
    deserialized,   \* the CToRustTranslationSchema value serde_json built of it
    validation,     \* what validate_metadata returned, once it has
    normalizer,     \* which of parse_individual / parse_project ran: "none" when neither
    parse_result,   \* what parse returned, once it has
    \* ---- get_repository_name, get_repository_owner ----
    resolver_url,   \* the url the resolver functions are called with
    name_result,    \* what get_repository_name of utils.rs and of repositories.rs returned
    owner_result,   \* what get_repository_owner returned, once it has
    \* ---- delete (lib.rs) ----
    delete_result,  \* what the last call of delete returned
    deletes,        \* calls of delete so far
    \* ---- a run and a second run over the same metadata ----
    rerun_pairs,    \* the pairs of the metadata files, in the order a run meets them
    rerun_log,      \* what download_program_pair returned, call after call of both runs
    first_run       \* programs/ and repository_clones/ as the first run left them

branchVars ==
    <<BRANCH_CACHE, lockHolder, poisoned, tpc, turl, tstart, lastCall, calls>>

extractVars ==
    <<source_files, xpos, walkState, walkDir, walkLeft, walkCopies, xresult>>

diskVars == <<programs, program_directory, opened_repository, repository_clones, roots>>

pairVars ==
    <<ppc, pair, side, sideStatus, pairResult, lastAcquire, prevAcquire, downloads>>

runVars ==
    <<rpc, schema, directories, dirIdx, fileIdx, pairIdx, metadata, parsed, reported,
      attempts, failures, fileResults, fileReports, runResult>>

parseVars == <<mpc, raw_metadata, deserialized, validation, normalizer, parse_result>>

resolveVars == <<resolver_url, name_result, owner_result>>

deleteVars == <<delete_result, deletes>>

rerunVars == <<rerun_pairs, rerun_log, first_run>>

vars ==
    <<branchVars, extractVars, diskVars, pairVars, runVars, parseVars, resolveVars, deleteVars,
      rerunVars>>

----------------------------------------------------------------------------
(* Bounds of the model.                                                    *)

\* Concurrent callers of get_repository_default_branch.
NumThreads == 2

\* Calls of get_repository_default_branch in one process.
MaxCalls == 3

\* Entries of one ProgramSource's source_paths.
MaxEntries == 2

\* Calls of download_program_pair on one disk, over one run or several.
MaxDownloads == 3

----------------------------------------------------------------------------
(* Rust string operations on sequences of characters.                      *)

\* str::contains(pat)
Contains(s, pat) ==
    \E i \in 1..(Len(s) + 1 - Len(pat)) : SubSeq(s, i, i + Len(pat) - 1) = pat

\* str::trim_end_matches(ch)
RECURSIVE TrimEndMatches(_, _)
TrimEndMatches(s, ch) ==
    IF Len(s) > 0 /\ s[Len(s)] = ch
    THEN TrimEndMatches(SubSeq(s, 1, Len(s) - 1), ch)
    ELSE s

\* str::split(ch), collected: always at least one segment.
RECURSIVE Split(_, _)
Split(s, ch) ==
    IF \E i \in 1..Len(s) : s[i] = ch
    THEN LET i == CHOOSE k \in 1..Len(s) :
                      s[k] = ch /\ \A j \in 1..(k - 1) : s[j] # ch
         IN  <<SubSeq(s, 1, i - 1)>> \o Split(SubSeq(s, i + 1, Len(s)), ch)
    ELSE <<s>>

\* str::strip_suffix(suffix).unwrap_or(s)
StripSuffixOr(s, suffix) ==
    IF Len(s) >= Len(suffix) /\ SubSeq(s, Len(s) + 1 - Len(suffix), Len(s)) = suffix
    THEN SubSeq(s, 1, Len(s) - Len(suffix))
    ELSE s

DOT_GIT == <<".", "g", "i", "t">>
GITHUB == <<"g", "i", "t", "h", "u", "b">>

\* Result values: Ok(v), Err(e), and a panic of the calling thread.
Ok(v) == [kind |-> "ok", val |-> v]
Err(e) == [kind |-> "err", val |-> e]
Panic == [kind |-> "panic", val |-> "panic"]

\* Option values: Some(v) and NONE.
Some(v) == <<v>>
NONE == <<>>

None == "none"

\* errors.rs: a DownloadError, by variant, with the url or path it is about
\* and the source error it carries.
DownloadError(variant, about, error) ==
    [variant |-> variant, about |-> about, error |-> error]

NoError == DownloadError(None, None, None)

\* Result<(), DownloadError> values, and the value of a call yet to return.
OK_UNIT == Ok(NoError)
Pending == [kind |-> "none", val |-> NoError]

\* The record of one open-or-clone: the cache path, the url asked for, the
\* url cloned at the path before (None: nothing there), whether
\* Repository::open succeeded, and the clone: "no" (none attempted), "ok",
\* or the git2 error it failed with.
AcquireRecord(path, url, before, opened, cloned) ==
    [path |-> path, url |-> url, before |-> before, opened |-> opened, cloned |-> cloned]

NoAcquire == AcquireRecord(<<>>, None, None, FALSE, "no")

\* The parts of the state a specification does not use stay as they are here.
ExtractIdle ==
    /\ source_files = <<>>
    /\ xpos = 1
    /\ walkState = "none"
    /\ walkDir = None
    /\ walkLeft = {}
    /\ walkCopies = {}
    /\ xresult = Pending

DiskIdle ==
    /\ programs = <<>>
    /\ program_directory = None
    /\ opened_repository = None
    /\ repository_clones = <<>>
    /\ roots = {}

\* The metadata files of the repository, by directory: for each file the
\* pairs its JSON lists when it parses, as indices of PAIRS. One file lists
\* no pair.
METADATA_FILES ==
    [demo |-> <<<<1, 3>>, <<2>>>>,
     project |-> <<<<1>>, <<>>>>,
     individual |-> <<<<2, 4>>>>]

\* The metadata files, and the pairs they list.
FileKeys ==
    UNION {{<<d, i>> : i \in DOMAIN METADATA_FILES[d]} : d \in {"demo", "project", "individual"}}

PairKeys ==
    UNION {{<<f[1], f[2], j>> : j \in DOMAIN METADATA_FILES[f[1]][f[2]]} : f \in FileKeys}

RunIdle ==
    /\ rpc = "none"
    /\ schema = "ok"
    /\ directories = <<>>
    /\ dirIdx = 0
    /\ fileIdx = 0
    /\ pairIdx = 0
    /\ metadata = <<>>
    /\ parsed = [f \in FileKeys |-> "unseen"]
    /\ reported = {}
    /\ attempts = [k \in PairKeys |-> 0]
    /\ failures = 0
    /\ fileResults = <<>>
    /\ fileReports = <<>>
    /\ runResult = Pending

PairIdle ==
    /\ ppc = "idle"
    /\ pair = 0
    /\ side = None
    /\ sideStatus = [c |-> "none", rust |-> "none"]
    /\ pairResult = Pending
    /\ lastAcquire = NoAcquire
    /\ prevAcquire = NoAcquire
    /\ downloads = 0

\* No document: parse has not been given one, or has not deserialized it.
NoDocument == [shape |-> "none", pairs |-> <<>>]

\* parse has not returned; validate_metadata has not returned.
NoParse == [kind |-> "none", error |-> None, pairs |-> <<>>]

ParseIdle ==
    /\ mpc = "none"
    /\ raw_metadata = NoDocument
    /\ deserialized = NoDocument
    /\ validation = NoParse
    /\ normalizer = "none"
    /\ parse_result = NoParse

\* A url argument: its text and, when it is written as
\* https://<host>/<owner>/<repo><suffix>, the parts it is written of.
ResolverUrl(form, text, host, owner, repo, suffix) ==
    [form |-> form, text |-> text, host |-> host, owner |-> owner, repo |-> repo,
     suffix |-> suffix]

NoUrl == ResolverUrl("none", <<>>, <<>>, <<>>, <<>>, <<>>)

\* The resolver functions have not returned.
NoResolution == [kind |-> "none", val |-> <<>>]

ResolveIdle ==
    /\ resolver_url = NoUrl
    /\ name_result = [utils |-> NoResolution, repositories |-> NoResolution]
    /\ owner_result = NoResolution

\* delete has not been called.
DeleteIdle ==
    /\ delete_result = Pending
    /\ deletes = 0

\* No run is followed by a second run.
RerunIdle ==
    /\ rerun_pairs = <<>>
    /\ rerun_log = <<>>
    /\ first_run = [programs |-> <<>>, repository_clones |-> <<>>]

----------------------------------------------------------------------------
(* Repository name/owner resolver.                                         *)

\* get_repository_name keeps a trailing .git.
get_repository_name_KeepingSuffix(url) ==
    LET segments == Split(TrimEndMatches(url, "/"), "/")
    IN  Ok(segments[Len(segments)])

\* utils.rs: get_repository_name, lines 128-136.
get_repository_name(url) ==
    LET segments == Split(TrimEndMatches(url, "/"), "/")
        last_segment == segments[Len(segments)]
    IN  Ok(StripSuffixOr(last_segment, DOT_GIT))

\* utils/repositories.rs: get_repository_name (the same text)
repositories_get_repository_name(url) ==
    LET segments == Split(TrimEndMatches(url, "/"), "/")
        last_segment == segments[Len(segments)]
    IN  Ok(StripSuffixOr(last_segment, DOT_GIT))

\* utils/repositories.rs: get_repository_owner. url_parts[len - 2] panics
\* (index out of bounds, or subtraction overflow) when there is one part.
get_repository_owner(url) ==
    IF ~Contains(url, GITHUB)
    THEN Err("Invalid URL")
    ELSE LET url_parts == Split(TrimEndMatches(url, "/"), "/")
         IN  IF Len(url_parts) < 2
             THEN Panic
             ELSE Ok(url_parts[Len(url_parts) - 1])

----------------------------------------------------------------------------
(* Branch resolver: get_repository_default_branch and BRANCH_CACHE.        *)

\* "https://github.com/ez/eza.git"
URL_GIT ==
    <<"h", "t", "t", "p", "s", ":", "/", "/", "g", "i", "t", "h", "u", "b", ".", "c", "o", "m", "/", "e", "z", "/", "e", "z", "a", ".", "g", "i", "t">>

\* "https://github.com/ez/eza/"
URL_SLASH ==
    <<"h", "t", "t", "p", "s", ":", "/", "/", "g", "i", "t", "h", "u", "b", ".", "c", "o", "m", "/", "e", "z", "/", "e", "z", "a", "/">>

\* "https://github.com/uu/eza"
URL_OTHER_OWNER ==
    <<"h", "t", "t", "p", "s", ":", "/", "/", "g", "i", "t", "h", "u", "b", ".", "c", "o", "m", "/", "u", "u", "/", "e", "z", "a">>

\* "https://gitlab.com/ez/eza"
URL_OTHER_HOST ==
    <<"h", "t", "t", "p", "s", ":", "/", "/", "g", "i", "t", "l", "a", "b", ".", "c", "o", "m", "/", "e", "z", "/", "e", "z", "a">>

\* "github"
URL_NO_PATH ==
    <<"g", "i", "t", "h", "u", "b">>

\* The url arguments the callers draw from, by name.
BranchUrls == {"URL_GIT", "URL_SLASH", "URL_OTHER_OWNER", "URL_OTHER_HOST", "URL_NO_PATH"}

UrlText(u) ==
    CASE u = "URL_GIT" -> URL_GIT
      [] u = "URL_SLASH" -> URL_SLASH
      [] u = "URL_OTHER_OWNER" -> URL_OTHER_OWNER
      [] u = "URL_OTHER_HOST" -> URL_OTHER_HOST
      [] u = "URL_NO_PATH" -> URL_NO_PATH

Threads == 1..NumThreads

NoKey == <<>>
NoResponse == [sent |-> FALSE, status |-> "none", body |-> None]

\* What one API request can come back with: no response at all (send fails),
\* or a response with a status and a body that either holds a
\* default_branch string or does not deserialize to GithubApiResponse.
ApiResponses ==
    {NoResponse}
    \cup [sent : {TRUE}, status : {"2xx", "non2xx"}, body : {"main", "dev", "malformed"}]

\* The (owner, name) key lines 91-93 compute for a url; NoKey when
\* get_repository_owner does not return Ok.
KeyOf(url) ==
    IF get_repository_owner(url).kind = "ok"
    THEN <<get_repository_owner(url).val, repositories_get_repository_name(url).val>>
    ELSE NoKey

KeyTable == [u \in BranchUrls |-> KeyOf(UrlText(u))]

CachedBranch(u) ==
    IF KeyTable[u] \in DOMAIN BRANCH_CACHE THEN BRANCH_CACHE[KeyTable[u]] ELSE None

\* The record of a finished call: the url, the branch cached for its key when
\* it began, the API requests it sent, the response it got, what it returned.
CallRecord(u, start, req, resp, result) ==
    [url |-> u, start |-> start, req |-> req, resp |-> resp, result |-> result]

BranchIdle ==
    /\ BRANCH_CACHE = <<>>
    /\ lockHolder = {}
    /\ poisoned = FALSE
    /\ tpc = [t \in Threads |-> "idle"]
    /\ turl = [t \in Threads |-> None]
    /\ tstart = [t \in Threads |-> None]
    /\ lastCall = CallRecord(None, None, 0, NoResponse, [kind |-> "none", val |-> "none"])
    /\ calls = 0

\* No call has been made and the cache is empty.
InitBranch ==
    /\ BranchIdle /\ ExtractIdle /\ DiskIdle /\ PairIdle /\ RunIdle /\ ParseIdle /\ ResolveIdle
    /\ DeleteIdle
    /\ RerunIdle

\* A call of thread t ends with `result`, having sent `req` API requests.
Finish(t, req, resp, result) ==
    /\ lastCall' = CallRecord(turl[t], tstart[t], req, resp, result)
    /\ turl' = [turl EXCEPT ![t] = None]
    /\ tstart' = [tstart EXCEPT ![t] = None]

\* Entry of get_repository_default_branch(url): the host check, lines 85-87.
Call(t, u) ==
    /\ tpc[t] = "idle"
    /\ calls < MaxCalls
    /\ calls' = calls + 1
    /\ IF ~Contains(UrlText(u), GITHUB)
       THEN /\ lastCall' = CallRecord(u, CachedBranch(u), 0, NoResponse, Err("Invalid URL"))
            /\ UNCHANGED <<tpc, turl, tstart>>
       ELSE /\ tpc' = [tpc EXCEPT ![t] = "lock"]
            /\ turl' = [turl EXCEPT ![t] = u]
            /\ tstart' = [tstart EXCEPT ![t] = CachedBranch(u)]
            /\ UNCHANGED lastCall
    /\ UNCHANGED <<BRANCH_CACHE, lockHolder, poisoned>>
    /\ UNCHANGED <<extractVars, diskVars, pairVars, runVars, parseVars, resolveVars, deleteVars, rerunVars>>

\* A lock that excludes nobody.
LockAvailable_NoExclusion == TRUE

\* Whether a thread at "lock" may take the mutex now.
LockAvailable == lockHolder = {}

\* BRANCH_CACHE.lock().unwrap(), line 89: blocks until the mutex is free;
\* on a poisoned mutex lock() returns Err and unwrap panics (the guard inside
\* the error is dropped, so the mutex is free again and stays poisoned).
Lock(t) ==
    /\ tpc[t] = "lock"
    /\ LockAvailable
    /\ IF poisoned
       THEN /\ tpc' = [tpc EXCEPT ![t] = "panicked"]
            /\ Finish(t, 0, NoResponse, Panic)
            /\ UNCHANGED lockHolder
       ELSE /\ tpc' = [tpc EXCEPT ![t] = "key"]
            /\ lockHolder' = lockHolder \cup {t}
            /\ UNCHANGED <<turl, tstart, lastCall>>
    /\ UNCHANGED <<BRANCH_CACHE, poisoned, calls>>
    /\ UNCHANGED <<extractVars, diskVars, pairVars, runVars, parseVars, resolveVars, deleteVars, rerunVars>>

\* Lines 91-98: the key, then the cache lookup, all under the lock. A panic
\* in get_repository_owner unwinds through the guard: the mutex is released
\* and poisoned. A return drops the guard: the mutex is released.
Lookup(t) ==
    /\ tpc[t] = "key"
    /\ LET owner == get_repository_owner(UrlText(turl[t]))
           repository == repositories_get_repository_name(UrlText(turl[t]))
           key == <<owner.val, repository.val>>
       IN  CASE owner.kind = "panic" ->
                  /\ tpc' = [tpc EXCEPT ![t] = "panicked"]
                  /\ Finish(t, 0, NoResponse, Panic)
                  /\ poisoned' = TRUE
                  /\ lockHolder' = lockHolder \ {t}
            [] owner.kind = "err" ->
                  /\ tpc' = [tpc EXCEPT ![t] = "idle"]
                  /\ Finish(t, 0, NoResponse, owner)
                  /\ lockHolder' = lockHolder \ {t}
                  /\ UNCHANGED poisoned
            [] owner.kind = "ok" /\ key \in DOMAIN BRANCH_CACHE ->
                  /\ tpc' = [tpc EXCEPT ![t] = "idle"]
                  /\ Finish(t, 0, NoResponse, Ok(BRANCH_CACHE[key]))
                  /\ lockHolder' = lockHolder \ {t}
                  /\ UNCHANGED poisoned
            [] OTHER ->
                  /\ tpc' = [tpc EXCEPT ![t] = "api"]
                  /\ UNCHANGED <<turl, tstart, lastCall, poisoned, lockHolder>>
    /\ UNCHANGED <<BRANCH_CACHE, calls>>
    /\ UNCHANGED <<extractVars, diskVars, pairVars, runVars, parseVars, resolveVars, deleteVars, rerunVars>>

\* HashMap::insert
Insert(cache, key, branch) ==
    [k \in DOMAIN cache \cup {key} |-> IF k = key THEN branch ELSE cache[k]]

\* Whether the code takes a response as a failure: send() fails when no
\* response arrives, json() fails when the body does not deserialize. The
\* status of a response that arrived is not looked at.
ResponseRejected(resp) == ~resp.sent \/ resp.body = "malformed"

\* Lines 100-119: the API request, still under the lock, then the insert.
ApiCall(t, resp) ==
    /\ tpc[t] = "api"
    /\ IF ResponseRejected(resp)
       THEN /\ Finish(t, 1, resp, Err("ApiError"))
            /\ UNCHANGED BRANCH_CACHE
       ELSE /\ Finish(t, 1, resp, Ok(resp.body))
            /\ BRANCH_CACHE' = Insert(BRANCH_CACHE, KeyTable[turl[t]], resp.body)
    /\ tpc' = [tpc EXCEPT ![t] = "idle"]
    /\ lockHolder' = lockHolder \ {t}
    /\ UNCHANGED <<poisoned, calls>>
    /\ UNCHANGED <<extractVars, diskVars, pairVars, runVars, parseVars, resolveVars, deleteVars, rerunVars>>

NextBranch ==
    \/ \E t \in Threads, u \in BranchUrls : Call(t, u)
    \/ \E t \in Threads : Lock(t)
    \/ \E t \in Threads : Lookup(t)
    \/ \E t \in Threads, resp \in ApiResponses : ApiCall(t, resp)

SpecBranch == InitBranch /\ [][NextBranch]_vars

----------------------------------------------------------------------------
(* File extractor: the copy loop of download_files and                     *)
(* copy_files_from_directory.                                              *)
(* The file system holds the working tree of a cloned repository, "w", and *)
(* the program directory "p" the files are copied to. Files and            *)
(* source_paths entries are named by their text; Text gives the            *)
(* characters.                                                             *)

FsFiles ==
    {"w/src/a.c",
     "w/src/b.rs",
     "w/src/c.txt",
     "w/src/sub/d.c",
     "w/lib/sub-d.c",
     "w/lib/sub/d.c",
     "w/lib/.h",
     "w/lib/README",
     "w/main.c",
     "w/inc/main.c",
     "o.c",
     "/etc/o.c"}

SourceEntries ==
    {"src", "lib", "main.c", "inc/main.c", "lib/README", "missing.c", "..",
     "../o.c", "/etc/o.c"}

Text(s) ==
    CASE s = "w/src/a.c" ->
           <<"w", "/", "s", "r", "c", "/", "a", ".", "c">>
      [] s = "w/src/b.rs" ->
           <<"w", "/", "s", "r", "c", "/", "b", ".", "r", "s">>
      [] s = "w/src/c.txt" ->
           <<"w", "/", "s", "r", "c", "/", "c", ".", "t", "x", "t">>
      [] s = "w/src/sub/d.c" ->
           <<"w", "/", "s", "r", "c", "/", "s", "u", "b", "/", "d", ".", "c">>
      [] s = "w/lib/sub-d.c" ->
           <<"w", "/", "l", "i", "b", "/", "s", "u", "b", "-", "d", ".", "c">>
      [] s = "w/lib/sub/d.c" ->
           <<"w", "/", "l", "i", "b", "/", "s", "u", "b", "/", "d", ".", "c">>
      [] s = "w/lib/.h" ->
           <<"w", "/", "l", "i", "b", "/", ".", "h">>
      [] s = "w/lib/README" ->
           <<"w", "/", "l", "i", "b", "/", "R", "E", "A", "D", "M", "E">>
      [] s = "w/main.c" ->
           <<"w", "/", "m", "a", "i", "n", ".", "c">>
      [] s = "w/inc/main.c" ->
           <<"w", "/", "i", "n", "c", "/", "m", "a", "i", "n", ".", "c">>
      [] s = "src" ->
           <<"s", "r", "c">>
      [] s = "lib" ->
           <<"l", "i", "b">>
      [] s = "main.c" ->
           <<"m", "a", "i", "n", ".", "c">>
      [] s = "inc/main.c" ->
           <<"i", "n", "c", "/", "m", "a", "i", "n", ".", "c">>
      [] s = "lib/README" ->
           <<"l", "i", "b", "/", "R", "E", "A", "D", "M", "E">>
      [] s = "missing.c" ->
           <<"m", "i", "s", "s", "i", "n", "g", ".", "c">>
      [] s = ".." ->
           <<".", ".">>
      [] s = "o.c" ->
           <<"o", ".", "c">>
      [] s = "../o.c" ->
           <<".", ".", "/", "o", ".", "c">>
      [] s = "/etc/o.c" ->
           <<"/", "e", "t", "c", "/", "o", ".", "c">>
      [] s = "w" ->
           <<"w">>
      [] s = "p" ->
           <<"p">>

REPOSITORY_DIRECTORY == "w"

\* str::replace(from, to) for one-character patterns.
Replace(s, from, to) == [i \in 1..Len(s) |-> IF s[i] = from THEN to ELSE s[i]]

\* The text of a sequence of path components, joined by the separator.
RECURSIVE JoinComponents(_)
JoinComponents(cs) ==
    IF Len(cs) = 0 THEN <<>>
    ELSE IF Len(cs) = 1 THEN cs[1]
    ELSE cs[1] \o <<"/">> \o JoinComponents(Tail(cs))

\* Path::components: empty components and "." are dropped; a leading
\* separator is the root component.
Components(path) ==
    (IF path # <<>> /\ path[1] = "/" THEN <<<<"/">>>> ELSE <<>>)
        \o SelectSeq(Split(path, "/"), LAMBDA c : c # <<>> /\ c # <<".">>)

\* The file the system reaches by the components: ".." steps to the
\* parent of an existing directory, and the parent of the root is the root.
RECURSIVE Resolve(_)
Resolve(cs) ==
    IF cs = <<>> THEN <<>>
    ELSE LET init == Resolve(SubSeq(cs, 1, Len(cs) - 1))
             last == cs[Len(cs)]
         IN  IF last # <<".", ".">> THEN Append(init, last)
             ELSE IF init = <<>> \/ init[Len(init)] = <<".", ".">> THEN Append(init, last)
             ELSE IF init[Len(init)] = <<"/">> THEN init
             ELSE SubSeq(init, 1, Len(init) - 1)

\* Path::file_name gives the whole path.
FileName_WholePath(path) == Some(path)

\* Path::file_name: the last component, unless there is none or it is "..".
FileName(path) ==
    LET cs == Components(path)
    IN  IF Len(cs) = 0 \/ cs[Len(cs)] \in {<<".", ".">>, <<"/">>}
        THEN NONE
        ELSE Some(cs[Len(cs)])

\* Path::extension: what follows the last dot of the file name; none when
\* the name has no dot or its only dot is its first character.
Extension(path) ==
    IF FileName(path) = NONE THEN NONE
    ELSE LET name == FileName(path)[1]
             dots == {i \in 1..Len(name) : name[i] = "."}
         IN  IF dots = {} THEN NONE
             ELSE LET last == CHOOSE i \in dots : \A j \in dots : j <= i
                  IN  IF last = 1 THEN NONE
                      ELSE Some(SubSeq(name, last + 1, Len(name)))

\* matches!(extension, "c" | "h" | "rs") with only "c" | "h".
AllowedExtension_NoRust(extension) == extension \in {<<"c">>, <<"h">>}

\* matches!(extension, "c" | "h" | "rs"), utils.rs line 86.
AllowedExtension(extension) == extension \in {<<"c">>, <<"h">>, <<"r", "s">>}

IsPrefix(a, b) == Len(a) <= Len(b) /\ SubSeq(b, 1, Len(a)) = a

\* Path::is_file, Path::is_dir on the modelled file system.
IsFile(path) == \E f \in FsFiles : Components(Text(f)) = Resolve(Components(path))

IsDir(path) ==
    \E f \in FsFiles :
        /\ IsPrefix(Resolve(Components(path)), Components(Text(f)))
        /\ Resolve(Components(path)) # Components(Text(f))

\* WalkDir::new(source): the files at any depth under the directory.
WalkFiles(source) ==
    {f \in FsFiles :
        /\ IsPrefix(Resolve(Components(source)), Components(Text(f)))
        /\ Resolve(Components(source)) # Components(Text(f))}

\* path.strip_prefix(source), as text.
StripPrefix(path, source) ==
    LET cs == Components(path)
    IN  JoinComponents(SubSeq(cs, Len(Resolve(Components(source))) + 1, Len(cs)))

\* utils.rs lines 89-98: the destination file name of a walked file.
FlatName(path, source) == Replace(StripPrefix(path, source), "/", "-")

\* The repository path of a source_files entry, line 294: Path::join gives
\* the entry itself when the entry is absolute.
SourceOf(entry) ==
    IF Text(entry)[1] = "/" THEN Text(entry)
    ELSE Text(REPOSITORY_DIRECTORY) \o <<"/">> \o Text(entry)

\* What a copied file holds: the file f of the clone of repo.
Content(repo, f) == [repo |-> repo, file |-> f]

\* fs::copy leaving a file that exists as it is and writing beside it.
CopyTo_BesideExisting(progs, d, name, content) ==
    LET written == IF name \in DOMAIN progs[d] THEN Append(name, "~") ELSE name
    IN  [progs EXCEPT ![d] =
            [n \in DOMAIN progs[d] \cup {written} |->
                IF n = written THEN content ELSE progs[d][n]]]

\* fs::copy(from, to): programs/ with the file written into directory d
\* under the name, replacing what was there.
CopyTo(progs, d, name, content) ==
    [progs EXCEPT ![d] =
        [n \in DOMAIN progs[d] \cup {name} |-> IF n = name THEN content ELSE progs[d][n]]]

\* The files of the directory download_files copies into.
Dest == programs[program_directory]

RECURSIVE SeqsUpTo(_, _)
SeqsUpTo(S, n) ==
    IF n = 0 THEN {<<>>}
    ELSE SeqsUpTo(S, n - 1)
         \cup {Append(q, e) : q \in {r \in SeqsUpTo(S, n - 1) : Len(r) = n - 1}, e \in S}

InitExtract ==
    /\ source_files \in SeqsUpTo(SourceEntries, MaxEntries)
    /\ xpos = 1
    /\ walkState = "none"
    /\ walkDir = None
    /\ walkLeft = {}
    /\ walkCopies = {}
    /\ xresult = Pending
    /\ programs = ("p" :> <<>>)
    /\ program_directory = "p"
    /\ opened_repository = "URL_GIT"
    /\ repository_clones = <<>>
    /\ roots = {"programs", "repository_clones"}
    /\ ppc = "files"
    /\ pair = 0
    /\ side = None
    /\ sideStatus = [c |-> "none", rust |-> "none"]
    /\ pairResult = Pending
    /\ lastAcquire = NoAcquire
    /\ prevAcquire = NoAcquire
    /\ downloads = 0
    /\ BranchIdle
    /\ RunIdle
    /\ ParseIdle
    /\ ResolveIdle
    /\ DeleteIdle
    /\ RerunIdle

\* The loop of download_files with the error of an entry reported and the
\* loop going on to the next entry.
CopyEntry_SkippingFailedEntry(io_ok) ==
    /\ ppc = "files"
    /\ xresult = Pending
    /\ walkState # "walking"
    /\ xpos <= Len(source_files)
    /\ LET file_path == source_files[xpos]
           file_name == FileName(Text(file_path))
           source == SourceOf(file_path)
       IN  IF file_name # NONE /\ IsDir(source)
           THEN /\ walkState' = "walking"
                /\ walkDir' = file_path
                /\ walkLeft' = WalkFiles(source)
                /\ walkCopies' = {}
                /\ UNCHANGED <<xpos, programs, xresult>>
           ELSE IF file_name # NONE /\ IsFile(source) /\ io_ok
           THEN /\ programs' = CopyTo(programs, program_directory, file_name[1],
                                       Content(opened_repository, (CHOOSE f \in FsFiles : Components(Text(f)) = Resolve(Components(source)))))
                /\ xpos' = xpos + 1
                /\ UNCHANGED <<walkState, walkDir, walkLeft, walkCopies, xresult>>
           ELSE /\ xpos' = xpos + 1
                /\ UNCHANGED <<walkState, walkDir, walkLeft, walkCopies, programs, xresult>>
    /\ UNCHANGED <<source_files, program_directory, opened_repository, repository_clones, roots>>
    /\ UNCHANGED <<branchVars, pairVars, runVars, parseVars, resolveVars, deleteVars, rerunVars>>

\* One iteration of the loop of download_files, lines 289-307, up to the
\* call of copy_files_from_directory or the end of fs::copy. io_ok is
\* whether the file system lets the copy through.
CopyEntry(io_ok) ==
    /\ ppc = "files"
    /\ xresult = Pending
    /\ walkState # "walking"
    /\ xpos <= Len(source_files)
    /\ LET file_path == source_files[xpos]
           file_name == FileName(Text(file_path))
           source == SourceOf(file_path)
       IN  IF file_name = NONE
           THEN /\ xresult' = Err(DownloadError("Io", None, "io::Error"))
                /\ UNCHANGED <<xpos, walkState, walkDir, walkLeft, walkCopies, programs>>
           ELSE IF IsDir(source)
           THEN /\ walkState' = "walking"
                /\ walkDir' = file_path
                /\ walkLeft' = WalkFiles(source)
                /\ walkCopies' = {}
                /\ UNCHANGED <<xpos, programs, xresult>>
           ELSE IF IsFile(source) /\ io_ok
           THEN /\ programs' = CopyTo(programs, program_directory, file_name[1],
                                       Content(opened_repository, (CHOOSE f \in FsFiles : Components(Text(f)) = Resolve(Components(source)))))
                /\ xpos' = xpos + 1
                /\ UNCHANGED <<walkState, walkDir, walkLeft, walkCopies, xresult>>
           ELSE /\ xresult' = Err(DownloadError("IoCopy", None, "io::Error"))
                /\ UNCHANGED <<xpos, walkState, walkDir, walkLeft, walkCopies, programs>>
    /\ UNCHANGED <<source_files, program_directory, opened_repository, repository_clones, roots>>
    /\ UNCHANGED <<branchVars, pairVars, runVars, parseVars, resolveVars, deleteVars, rerunVars>>

\* One entry of the walk of copy_files_from_directory, utils.rs lines 77-109.
\* WalkDir yields the files in the order the directories list them.
WalkEntry(f, io_ok) ==
    /\ ppc = "files"
    /\ walkState = "walking"
    /\ f \in walkLeft
    /\ walkLeft' = walkLeft \ {f}
    /\ LET path == Text(f)
           source == SourceOf(walkDir)
           extension == Extension(path)
       IN  IF extension # NONE /\ AllowedExtension(extension[1])
           THEN IF io_ok
                THEN /\ programs' = CopyTo(programs, program_directory,
                                            FlatName(path, source), Content(opened_repository, f))
                     /\ walkCopies' = walkCopies
                            \cup {[file |-> f, name |-> FlatName(path, source)]}
                     /\ UNCHANGED <<walkState, xresult>>
                ELSE /\ xresult' = Err(DownloadError("IoCopy", None, "io::Error"))
                     /\ walkState' = "failed"
                     /\ UNCHANGED <<programs, walkCopies>>
           ELSE UNCHANGED <<programs, walkCopies, walkState, xresult>>
    /\ UNCHANGED <<source_files, xpos, walkDir, program_directory, opened_repository,
                   repository_clones, roots>>
    /\ UNCHANGED <<branchVars, pairVars, runVars, parseVars, resolveVars, deleteVars, rerunVars>>

\* The walk is over: copy_files_from_directory returns Ok, line 111, and the
\* loop of download_files goes on.
WalkEnd ==
    /\ ppc = "files"
    /\ walkState = "walking"
    /\ walkLeft = {}
    /\ walkState' = "done"
    /\ xpos' = xpos + 1
    /\ UNCHANGED <<source_files, walkDir, walkLeft, walkCopies, xresult, diskVars>>
    /\ UNCHANGED <<branchVars, pairVars, runVars, parseVars, resolveVars, deleteVars, rerunVars>>

\* Every entry is copied: download_files returns Ok, line 314.
ExtractDone ==
    /\ ppc = "files"
    /\ xresult = Pending
    /\ walkState # "walking"
    /\ xpos > Len(source_files)
    /\ xresult' = OK_UNIT
    /\ UNCHANGED <<source_files, xpos, walkState, walkDir, walkLeft, walkCopies, diskVars>>
    /\ UNCHANGED <<branchVars, pairVars, runVars, parseVars, resolveVars, deleteVars, rerunVars>>

NextExtract ==
    \/ \E io_ok \in BOOLEAN : CopyEntry(io_ok)
    \/ \E f \in FsFiles, io_ok \in BOOLEAN : WalkEntry(f, io_ok)
    \/ WalkEnd
    \/ ExtractDone

SpecExtract == InitExtract /\ [][NextExtract]_vars

----------------------------------------------------------------------------
(* Repository cache manager and download_program_pair.                     *)
(* The disk holds repository_clones/ (cache path -> the url cloned there)  *)
(* and programs/ (directory -> files). Every clone has the working tree    *)
(* FsFiles; a copied file records the url of the clone it was read from.   *)
(* A sequence of download_program_pair calls on one disk is what one run   *)
(* makes pair after pair, and what a re-run makes on the disk the run      *)
(* before left: the process keeps no state of its own between the calls.   *)

\* "https://github.com/uu/ls.git"
URL_LS ==
    <<"h", "t", "t", "p", "s", ":", "/", "/", "g", "i", "t", "h", "u", "b", ".", "c", "o", "m", "/", "u", "u", "/", "l", "s", ".", "g", "i", "t">>

\* utils::get_repository_name(repository_url)?, line 234.
RepositoryName ==
    [u \in {"URL_GIT", "URL_OTHER_OWNER", "URL_LS"} |->
        get_repository_name(IF u = "URL_LS" THEN URL_LS ELSE UrlText(u)).val]

\* schema.rs: Program, with the fields download_files reads.
Program(repository_url, source_paths) ==
    [repository_url |-> repository_url, source_paths |-> source_paths]

\* schema.rs: ProgramPair, with the fields download_program_pair reads.
ProgramPair(program_name, c_program, rust_program) ==
    [program_name |-> program_name, c_program |-> c_program, rust_program |-> rust_program]

\* The pairs download_program_pair is called with. Two share a C repository,
\* two Rust repositories of different owners share the name eza, two pairs
\* share a program name, and some source_paths cannot be extracted.
PAIRS ==
    <<ProgramPair("eza", Program("URL_LS", <<"main.c">>), Program("URL_GIT", <<"src">>)),
      ProgramPair("ls", Program("URL_LS", <<"inc/main.c">>),
                  Program("URL_OTHER_OWNER", <<"main.c">>)),
      ProgramPair("eza", Program("URL_GIT", <<"main.c", "missing.c">>),
                  Program("URL_LS", <<"main.c">>)),
      ProgramPair("cat", Program("URL_LS", <<"main.c">>), Program("URL_GIT", <<"..">>))>>

\* The errors a clone can fail with.
Git2Errors == {"network", "not found"}

\* What one RepoBuilder::clone can come to.
CloneOutcomes == {"ok"} \cup Git2Errors

\* Lines 168-169: programs/<program_name>/c-program and .../rust-program.
ProgramPath(program_name, language) ==
    <<program_name, IF language = "c" THEN "c-program" ELSE "rust-program">>

\* Lines 232-234, 254: repository_clones/<language>/<repository_name>.
RepositoryPath(language, repository_url) == <<language, RepositoryName[repository_url]>>

\* The Program of the pair that download_files is called for.
ProgramOf(p, language) ==
    IF language = "c" THEN PAIRS[p].c_program ELSE PAIRS[p].rust_program

\* fs::create_dir_all creating nothing.
CreateDirAll_Nothing(progs, d) == progs

\* fs::create_dir_all: the directory exists afterwards, with what it held.
CreateDirAll(progs, d) ==
    [x \in DOMAIN progs \cup {d} |-> IF x \in DOMAIN progs THEN progs[x] ELSE <<>>]

\* Repository::open never succeeds.
RepositoryOpen_Never(clones, path) == FALSE

\* Repository::open(path), line 254: Ok when a clone is at the path.
RepositoryOpen(clones, path) == path \in DOMAIN clones

\* A successful clone into the path.
CloneInto(clones, path, url) ==
    [x \in DOMAIN clones \cup {path} |-> IF x = path THEN url ELSE clones[x]]

\* A failed clone leaves what it fetched at the path.
CloneFailureLeaves_Partial(clones, path, url) == CloneInto(clones, path, url)

\* RepoBuilder::clone failing, lines 267-275: git2 removes what the clone
\* created, so nothing that opens is at the path.
CloneFailureLeaves(clones, path, url) == clones

\* The `?` never returns.
CSideFailureReturns_Never(result) == FALSE

\* The `?` on the C side's download_files, line 188: an Err returns.
CSideFailureReturns(result) == result.kind = "err"

\* A fresh disk; no pair has been downloaded.
InitPair ==
    /\ DiskIdle
    /\ PairIdle
    /\ ExtractIdle
    /\ BranchIdle
    /\ RunIdle
    /\ ParseIdle
    /\ ResolveIdle
    /\ DeleteIdle
    /\ RerunIdle

\* Entry of download_program_pair(pair), line 166.
StartPair(p) ==
    /\ ppc = "idle"
    /\ downloads' = downloads + 1
    /\ pair' = p
    /\ ppc' = "dirs"
    /\ side' = None
    /\ sideStatus' = [c |-> "none", rust |-> "none"]
    /\ pairResult' = Pending
    /\ UNCHANGED <<lastAcquire, prevAcquire>>
    /\ UNCHANGED <<branchVars, extractVars, diskVars, parseVars, resolveVars, deleteVars, rerunVars>>

\* download_program_pair is called for some pair of some metadata file.
BeginPair(p) ==
    /\ downloads < MaxDownloads
    /\ StartPair(p)
    /\ UNCHANGED <<runVars, parseVars, resolveVars, deleteVars, rerunVars>>

\* Lines 167-180: the two create_dir_all calls, each with its `?`.
CreateDirs(c_ok, rust_ok) ==
    /\ ppc = "dirs"
    /\ LET program_name == PAIRS[pair].program_name
           c_program_path == ProgramPath(program_name, "c")
           rust_program_path == ProgramPath(program_name, "rust")
       IN  IF ~c_ok
           THEN /\ pairResult' = Err(DownloadError("IoCreate", None, "io::Error"))
                /\ ppc' = "idle"
                /\ UNCHANGED <<programs, side>>
           ELSE IF ~rust_ok
           THEN /\ programs' = CreateDirAll(programs, c_program_path)
                /\ pairResult' = Err(DownloadError("IoCreate", None, "io::Error"))
                /\ ppc' = "idle"
                /\ UNCHANGED side
           ELSE /\ programs' = CreateDirAll(CreateDirAll(programs, c_program_path),
                                            rust_program_path)
                /\ ppc' = "acquire"
                /\ side' = "c"
                /\ UNCHANGED pairResult
    /\ roots' = IF c_ok THEN roots \cup {"programs"} ELSE roots
    /\ UNCHANGED <<pair, sideStatus, lastAcquire, prevAcquire, downloads>>
    /\ UNCHANGED <<program_directory, opened_repository, repository_clones>>
    /\ UNCHANGED <<branchVars, extractVars, runVars, parseVars, resolveVars, deleteVars, rerunVars>>

\* download_files up to its copy loop, lines 232-286: the repository at the
\* cache path is opened, or cloned there when nothing opens. clone is what
\* a clone comes to if one is made. A clone made here has a working tree, so
\* workdir() is Some, and the progress bar template is a valid constant.
Acquire(clone) ==
    /\ ppc = "acquire"
    /\ LET program == ProgramOf(pair, side)
           repository_url == program.repository_url
           path == RepositoryPath(side, repository_url)
           before == IF path \in DOMAIN repository_clones
                     THEN repository_clones[path] ELSE None
           opened == RepositoryOpen(repository_clones, path)
       IN  /\ prevAcquire' = lastAcquire
           /\ roots' = IF opened THEN roots ELSE roots \cup {"repository_clones"}
           /\ IF opened \/ clone = "ok"
              THEN /\ repository_clones' =
                          IF opened THEN repository_clones
                          ELSE CloneInto(repository_clones, path, repository_url)
                   /\ opened_repository' = repository_clones'[path]
                   /\ lastAcquire' = AcquireRecord(path, repository_url, before, opened,
                                                   IF opened THEN "no" ELSE "ok")
                   /\ program_directory' = ProgramPath(PAIRS[pair].program_name, side)
                   /\ source_files' = program.source_paths
                   /\ xresult' = Pending
              ELSE /\ repository_clones' =
                          CloneFailureLeaves(repository_clones, path, repository_url)
                   /\ lastAcquire' = AcquireRecord(path, repository_url, before, opened, clone)
                   /\ xresult' = Err(DownloadError("CloneRepository", repository_url, clone))
                   /\ UNCHANGED <<opened_repository, program_directory, source_files>>
    /\ xpos' = 1
    /\ walkState' = "none"
    /\ walkDir' = None
    /\ walkLeft' = {}
    /\ walkCopies' = {}
    /\ ppc' = "files"
    /\ UNCHANGED <<programs, pair, side, sideStatus, pairResult, downloads>>
    /\ UNCHANGED <<branchVars, runVars, parseVars, resolveVars, deleteVars, rerunVars>>

\* download_files has returned to download_program_pair, lines 182-197: the
\* `?` returns an Err; after the C side comes the Rust side, after the Rust
\* side Ok(()).
SideReturn ==
    /\ ppc = "files"
    /\ xresult # Pending
    /\ side \in {"c", "rust"}
    /\ sideStatus' = [sideStatus EXCEPT ![side] = IF xresult.kind = "ok" THEN "ok" ELSE "failed"]
    /\ IF side = "c" /\ ~CSideFailureReturns(xresult)
       THEN /\ side' = "rust"
            /\ ppc' = "acquire"
            /\ UNCHANGED pairResult
       ELSE /\ pairResult' = xresult
            /\ ppc' = "idle"
            /\ UNCHANGED side
    /\ UNCHANGED <<pair, lastAcquire, prevAcquire, downloads>>
    /\ UNCHANGED <<branchVars, extractVars, diskVars, runVars, parseVars, resolveVars, deleteVars, rerunVars>>

NextPair ==
    \/ \E p \in DOMAIN PAIRS : BeginPair(p)
    \/ \E c_ok \in BOOLEAN, rust_ok \in BOOLEAN : CreateDirs(c_ok, rust_ok)
    \/ \E clone \in CloneOutcomes : Acquire(clone)
    \/ \E io_ok \in BOOLEAN : CopyEntry(io_ok)
    \/ \E f \in FsFiles, io_ok \in BOOLEAN : WalkEntry(f, io_ok)
    \/ WalkEnd
    \/ ExtractDone
    \/ SideReturn

SpecPair == InitPair /\ [][NextPair]_vars

----------------------------------------------------------------------------
(* Orchestrator: download_metadata, download_from_metadata_directory,      *)
(* download_metadata_file, and parse with validate_metadata.               *)

\* The state METADATA_SCHEMA_FILE can be in.
SchemaStates == {"ok", "missing", "corrupt"}

\* Result<Metadata, Box<dyn Error>>, with the pairs of the Metadata.
ParseOk(pairs) == [kind |-> "ok", error |-> None, pairs |-> pairs]
ParseErr(error) == [kind |-> "err", error |-> error, pairs |-> <<>>]

\* validate_metadata checks against a schema it does not read.
validate_metadata_WithoutSchema(content, schema_file) ==
    IF content = "invalid" THEN ParseErr("Failed to validate metadata") ELSE ParseOk(<<>>)

\* parser.rs validate_metadata, lines 93-104: the schema file is read and
\* parsed on each call, then the metadata is validated against it.
validate_metadata(content, schema_file) ==
    IF schema_file = "missing" THEN ParseErr("io::Error")
    ELSE IF schema_file = "corrupt" THEN ParseErr("serde_json::Error")
    ELSE IF content = "invalid" THEN ParseErr("Failed to validate metadata")
    ELSE ParseOk(<<>>)

\* parser.rs parse, lines 58-80.
parse(content, schema_file, pairs) ==
    IF content = "unreadable" THEN ParseErr("io::Error")
    ELSE IF content = "not json" THEN ParseErr("serde_json::Error")
    ELSE IF validate_metadata(content, schema_file).kind = "err"
    THEN validate_metadata(content, schema_file)
    ELSE ParseOk(pairs)

\* Lines 43-50: the directories of a run.
Directories(demo) == IF demo THEN <<"demo">> ELSE <<"project", "individual">>

\* The metadata file the directory loop is at.
CurrentFile == <<directories[dirIdx], fileIdx>>

\* The pair the pair loop is at.
CurrentPair == <<directories[dirIdx], fileIdx, pairIdx>>

\* download_metadata has not been called; the schema file is in some state.
InitRun ==
    /\ rpc = "start"
    /\ schema \in SchemaStates
    /\ directories = <<>>
    /\ dirIdx = 0
    /\ fileIdx = 0
    /\ pairIdx = 0
    /\ metadata = <<>>
    /\ parsed = [f \in FileKeys |-> "unseen"]
    /\ reported = {}
    /\ attempts = [k \in PairKeys |-> 0]
    /\ failures = 0
    /\ fileResults = <<>>
    /\ fileReports = <<>>
    /\ runResult = Pending
    /\ DiskIdle
    /\ PairIdle
    /\ ExtractIdle
    /\ BranchIdle
    /\ ParseIdle
    /\ ResolveIdle
    /\ DeleteIdle
    /\ RerunIdle

\* download_metadata returns the result.
Return(result) ==
    /\ rpc' = "returned"
    /\ runResult' = result
    /\ UNCHANGED <<schema, directories, dirIdx, fileIdx, pairIdx, metadata, parsed,
                   reported, attempts, failures, fileResults, fileReports>>

\* download_metadata(demo) up to its directory loop, lines 42-68: count_files
\* reads each directory, and the `?` returns the first failure. failed is
\* the index of the directory whose read fails (0: none).
DownloadMetadata(demo, failed) ==
    /\ rpc = "start"
    /\ IF failed # 0
       THEN /\ rpc' = "returned"
            /\ runResult' = Err(DownloadError("IoRead", Directories(demo)[failed], "io::Error"))
            /\ UNCHANGED dirIdx
       ELSE /\ rpc' = "directory"
            /\ dirIdx' = 1
            /\ UNCHANGED runResult
    /\ directories' = Directories(demo)
    /\ UNCHANGED <<schema, fileIdx, pairIdx, metadata, parsed, reported, attempts, failures,
                   fileResults, fileReports>>
    /\ UNCHANGED <<branchVars, extractVars, diskVars, pairVars, parseVars, resolveVars, deleteVars, rerunVars>>

\* The directory loop of download_metadata, lines 69-74, and the read_dir of
\* download_from_metadata_directory, lines 96-101.
ReadDirectory(read_ok) ==
    /\ rpc = "directory"
    /\ IF dirIdx > Len(directories)
       THEN Return(OK_UNIT)
       ELSE IF ~read_ok
       THEN Return(Err(DownloadError("IoRead", directories[dirIdx], "io::Error")))
       ELSE /\ rpc' = "file"
            /\ fileIdx' = 1
            /\ UNCHANGED <<schema, directories, dirIdx, pairIdx, metadata, parsed, reported,
                           attempts, failures, fileResults, fileReports, runResult>>
    /\ UNCHANGED <<branchVars, extractVars, diskVars, pairVars, parseVars, resolveVars, deleteVars, rerunVars>>

\* The Err arm of the match propagates the error.
ParseFailed_Propagating(error) ==
    Return(Err(DownloadError("Parse", directories[dirIdx], error)))

\* The Err arm of the match on parse, lines 114-120: a line on stderr, and
\* the loop goes on to the next entry.
ParseFailed(error) ==
    /\ reported' = reported \cup {CurrentFile}
    /\ parsed' = [parsed EXCEPT ![CurrentFile] = "failed"]
    /\ fileIdx' = fileIdx + 1
    /\ UNCHANGED <<rpc, schema, directories, dirIdx, pairIdx, metadata, attempts, failures,
                   fileResults, fileReports, runResult>>

\* One iteration of the entry loop of download_from_metadata_directory,
\* lines 103-124, up to the call of download_metadata_file. entry_ok is
\* whether the entry can be read, content what the file holds.
NextMetadataFile(entry_ok, content) ==
    /\ rpc = "file"
    /\ IF fileIdx > Len(METADATA_FILES[directories[dirIdx]])
       THEN /\ rpc' = "directory"
            /\ dirIdx' = dirIdx + 1
            /\ UNCHANGED <<schema, directories, fileIdx, pairIdx, metadata, parsed, reported,
                           attempts, failures, fileResults, fileReports, runResult>>
       ELSE IF ~entry_ok
       THEN Return(Err(DownloadError("IoRead", directories[dirIdx], "io::Error")))
       ELSE LET result == parse(content, schema, METADATA_FILES[directories[dirIdx]][fileIdx])
            IN  IF result.kind = "ok"
                THEN /\ rpc' = "pairs"
                     /\ metadata' = result.pairs
                     /\ pairIdx' = 1
                     /\ parsed' = [parsed EXCEPT ![CurrentFile] = "ok"]
                     /\ fileResults' = <<>>
                     /\ fileReports' = <<>>
                     /\ UNCHANGED <<schema, directories, dirIdx, fileIdx, reported, attempts, failures,
                                    runResult>>
                ELSE ParseFailed(result.error)
    /\ UNCHANGED <<branchVars, extractVars, diskVars, pairVars, parseVars, resolveVars, deleteVars, rerunVars>>

\* The pair loop of download_metadata_file calls download_program_pair,
\* lines 140-141.
CallPair ==
    /\ rpc = "pairs"
    /\ pairIdx <= Len(metadata)
    /\ StartPair(metadata[pairIdx])
    /\ rpc' = "call"
    /\ attempts' = [attempts EXCEPT ![CurrentPair] = @ + 1]
    /\ UNCHANGED <<schema, directories, dirIdx, fileIdx, pairIdx, metadata, parsed, reported,
                   failures, fileResults, fileReports, runResult>>

\* The failure of a pair propagates.
PairFailed_Propagating == Return(pairResult)

\* The body of the if let Err, line 142: a line on stderr with the name of
\* the pair, and the loop goes on.
PairFailed ==
    /\ fileReports' = Append(fileReports, PAIRS[metadata[pairIdx]].program_name)
    /\ fileResults' = Append(fileResults, pairResult.kind)
    /\ pairIdx' = pairIdx + 1
    /\ rpc' = "pairs"
    /\ failures' = failures + 1
    /\ UNCHANGED <<schema, directories, dirIdx, fileIdx, metadata, parsed, reported,
                   attempts, runResult>>

\* download_program_pair has returned to the pair loop, lines 141-144.
PairReturns ==
    /\ rpc = "call"
    /\ ppc = "idle"
    /\ IF pairResult.kind = "err"
       THEN PairFailed
       ELSE /\ fileResults' = Append(fileResults, pairResult.kind)
            /\ pairIdx' = pairIdx + 1
            /\ rpc' = "pairs"
            /\ UNCHANGED <<schema, directories, dirIdx, fileIdx, metadata, parsed, reported,
                           attempts, failures, fileReports, runResult>>
    /\ UNCHANGED <<branchVars, extractVars, diskVars, pairVars, parseVars, resolveVars, deleteVars, rerunVars>>

\* The pair loop is over: progress_bar.inc(1), line 145, and the entry loop
\* goes on.
FileDone ==
    /\ rpc = "pairs"
    /\ pairIdx > Len(metadata)
    /\ rpc' = "file"
    /\ fileIdx' = fileIdx + 1
    /\ UNCHANGED <<schema, directories, dirIdx, pairIdx, metadata, parsed, reported,
                   attempts, failures, fileResults, fileReports, runResult>>
    /\ UNCHANGED <<branchVars, extractVars, diskVars, pairVars, parseVars, resolveVars, deleteVars, rerunVars>>

NextRun ==
    \/ \E demo \in BOOLEAN :
           \E failed \in 0..Len(Directories(demo)) : DownloadMetadata(demo, failed)
    \/ \E read_ok \in BOOLEAN : ReadDirectory(read_ok)
    \/ \E entry_ok \in BOOLEAN, content \in {"valid", "unreadable", "not json", "invalid"} :
          NextMetadataFile(entry_ok, content)
    \/ CallPair
    \/ PairReturns
    \/ FileDone
    \/ \E c_ok \in BOOLEAN, rust_ok \in BOOLEAN : CreateDirs(c_ok, rust_ok)
    \/ \E clone \in CloneOutcomes : Acquire(clone)
    \/ \E io_ok \in BOOLEAN : CopyEntry(io_ok)
    \/ \E f \in FsFiles, io_ok \in BOOLEAN : WalkEntry(f, io_ok)
    \/ WalkEnd
    \/ ExtractDone
    \/ SideReturn

SpecRun == InitRun /\ [][NextRun]_vars

----------------------------------------------------------------------------
(* Metadata normalizer: parse, step by step, with parse_individual,        *)
(* parse_project and map_feature_relationship.                             *)
(* A metadata file is the JSON document it holds: its shape, its pairs     *)
(* list and, for a project, the project_information block. The             *)
(* feature_relationship of a raw document is the string literal of the     *)
(* JSON; deserialization turns it into a FeatureRelationship variant and    *)
(* map_feature_relationship into a Features value.                         *)

\* The longest pairs list of a document.
MaxPairs == 2

\* The feature_relationship literals of the metadata files (the serde names
\* of the four variants).
KnownLiterals ==
    {"rust_subset_of_c", "rust_equivalent_to_c", "rust_superset_of_c", "overlapping"}

\* The variant serde_json builds of a known literal.
FeatureRelationship(literal) ==
    CASE literal = "rust_subset_of_c" -> "RustSubsetOfC"
      [] literal = "rust_equivalent_to_c" -> "RustEquivalentToC"
      [] literal = "rust_superset_of_c" -> "RustSupersetOfC"
      [] literal = "overlapping" -> "Overlapping"

\* The documents a metadata file can hold: individual and project documents
\* with up to MaxPairs entries, and text that is JSON of neither shape. An
\* entry of an individual document is an IndividualProgramPair, an entry of
\* a project document a ProjectProgramPair; a feature_relationship is one of
\* the four literals or "identical", which is none of them.
Documents ==
    LET literals == KnownLiterals \cup {"identical"}
        names == {"eza", "ls"}
        descriptions ==
            [eza |-> "a modern replacement for ls", ls |-> "list directory contents"]
        c_source_paths == {<<"src">>, <<"src", "lib">>}
        rust_source_paths == <<"src/main.rs">>
        individual_entries ==
            {[program_name |-> n,
              program_description |-> descriptions[n],
              translation_tools |-> <<"c2rust">>,
              feature_relationship |-> l,
              c_program |-> [documentation_url |-> "c documentation",
                             repository_url |-> "c repository",
                             source_paths |-> c],
              rust_program |-> [documentation_url |-> "rust documentation",
                                repository_url |-> "rust repository",
                                source_paths |-> rust_source_paths]] :
                n \in names, l \in literals, c \in c_source_paths}
        project_entries ==
            {[program_name |-> n,
              program_description |-> descriptions[n],
              c_program |-> [source_paths |-> c],
              rust_program |-> [source_paths |-> rust_source_paths]] :
                n \in names, c \in c_source_paths}
        project_informations ==
            {[translation_tools |-> t,
              feature_relationship |-> l,
              c_program |-> [documentation_url |-> "project c documentation",
                             repository_url |-> "project c repository"],
              rust_program |-> [documentation_url |-> "project rust documentation",
                                repository_url |-> "project rust repository"]] :
                t \in {<<"c2rust">>, <<"c2rust", "manual">>}, l \in literals}
    IN  {[shape |-> "individual", pairs |-> q] : q \in SeqsUpTo(individual_entries, MaxPairs)}
        \cup {[shape |-> "project", pairs |-> q, project_information |-> information] :
                 q \in SeqsUpTo(project_entries, MaxPairs),
                 information \in project_informations}
        \cup {[shape |-> "other", pairs |-> <<>>]}

\* The feature_relationship literals of a document.
LiteralsOf(document) ==
    IF document.shape = "individual"
    THEN {document.pairs[i].feature_relationship : i \in 1..Len(document.pairs)}
    ELSE IF document.shape = "project"
    THEN {document.project_information.feature_relationship}
    ELSE {}

\* serde_json::from_str::<CToRustTranslationSchema>, line 61: a document of
\* either shape whose literals are variants of FeatureRelationship becomes
\* the value of the generated types; anything else is an error.
from_str(document) ==
    IF document.shape = "other" \/ ~(LiteralsOf(document) \subseteq KnownLiterals)
    THEN Err("serde_json::Error")
    ELSE IF document.shape = "individual"
    THEN Ok([shape |-> "IndividualPairsMetadata",
             pairs |-> [i \in 1..Len(document.pairs) |->
                           [document.pairs[i] EXCEPT
                               !.feature_relationship = FeatureRelationship(@)]]])
    ELSE Ok([shape |-> "ProjectPairsMetadata",
             pairs |-> document.pairs,
             project_information |->
                 [document.project_information EXCEPT
                     !.feature_relationship = FeatureRelationship(@)]])

\* map_feature_relationship sends two variants to one value.
map_feature_relationship_Merging(relationship) ==
    CASE relationship = "RustSubsetOfC" -> "Subset"
      [] relationship = "RustSupersetOfC" -> "Subset"
      [] relationship = "RustEquivalentToC" -> "Equivalent"
      [] relationship = "Overlapping" -> "Overlapping"

\* parser.rs map_feature_relationship, lines 194-201.
map_feature_relationship(relationship) ==
    CASE relationship = "RustSubsetOfC" -> "Subset"
      [] relationship = "RustSupersetOfC" -> "Superset"
      [] relationship = "RustEquivalentToC" -> "Equivalent"
      [] relationship = "Overlapping" -> "Overlapping"

\* parse_individual leaves the last entry out.
parse_individual_WithoutLast(pairs) ==
    [i \in 1..(Len(pairs) - 1) |->
        [program_name |-> pairs[i].program_name,
         program_description |-> pairs[i].program_description,
         translation_tools |-> pairs[i].translation_tools,
         feature_relationship |-> map_feature_relationship(pairs[i].feature_relationship),
         c_program |->
            [language |-> "C",
             documentation_url |-> pairs[i].c_program.documentation_url,
             repository_url |-> pairs[i].c_program.repository_url,
             source_paths |-> pairs[i].c_program.source_paths],
         rust_program |->
            [language |-> "Rust",
             documentation_url |-> pairs[i].rust_program.documentation_url,
             repository_url |-> pairs[i].rust_program.repository_url,
             source_paths |-> pairs[i].rust_program.source_paths]]]

\* parser.rs parse_individual, lines 115-139: the pairs of the Metadata.
parse_individual(pairs) ==
    [i \in 1..Len(pairs) |->
        [program_name |-> pairs[i].program_name,
         program_description |-> pairs[i].program_description,
         translation_tools |-> pairs[i].translation_tools,
         feature_relationship |-> map_feature_relationship(pairs[i].feature_relationship),
         c_program |->
            [language |-> "C",
             documentation_url |-> pairs[i].c_program.documentation_url,
             repository_url |-> pairs[i].c_program.repository_url,
             source_paths |-> pairs[i].c_program.source_paths],
         rust_program |->
            [language |-> "Rust",
             documentation_url |-> pairs[i].rust_program.documentation_url,
             repository_url |-> pairs[i].rust_program.repository_url,
             source_paths |-> pairs[i].rust_program.source_paths]]]

\* parse_project gives the first pair only the translation tools of the
\* shared block.
parse_project_ToolsOnFirstPair(pairs, project_information) ==
    [i \in 1..Len(pairs) |->
        [program_name |-> pairs[i].program_name,
         program_description |-> pairs[i].program_description,
         translation_tools |-> IF i = 1 THEN project_information.translation_tools ELSE <<>>,
         feature_relationship |->
             map_feature_relationship(project_information.feature_relationship),
         c_program |->
            [language |-> "C",
             documentation_url |-> project_information.c_program.documentation_url,
             repository_url |-> project_information.c_program.repository_url,
             source_paths |-> pairs[i].c_program.source_paths],
         rust_program |->
            [language |-> "Rust",
             documentation_url |-> project_information.rust_program.documentation_url,
             repository_url |-> project_information.rust_program.repository_url,
             source_paths |-> pairs[i].rust_program.source_paths]]]

\* parser.rs parse_project, lines 150-182: the pairs of the Metadata.
parse_project(pairs, project_information) ==
    [i \in 1..Len(pairs) |->
        [program_name |-> pairs[i].program_name,
         program_description |-> pairs[i].program_description,
         translation_tools |-> project_information.translation_tools,
         feature_relationship |->
             map_feature_relationship(project_information.feature_relationship),
         c_program |->
            [language |-> "C",
             documentation_url |-> project_information.c_program.documentation_url,
             repository_url |-> project_information.c_program.repository_url,
             source_paths |-> pairs[i].c_program.source_paths],
         rust_program |->
            [language |-> "Rust",
             documentation_url |-> project_information.rust_program.documentation_url,
             repository_url |-> project_information.rust_program.repository_url,
             source_paths |-> pairs[i].rust_program.source_paths]]]

\* parse is called with the path of a metadata file holding some document.
InitParse ==
    /\ mpc = "read"
    /\ raw_metadata \in Documents
    /\ deserialized = NoDocument
    /\ validation = NoParse
    /\ normalizer = "none"
    /\ parse_result = NoParse
    /\ BranchIdle
    /\ ExtractIdle
    /\ DiskIdle
    /\ PairIdle
    /\ RunIdle
    /\ ResolveIdle
    /\ DeleteIdle
    /\ RerunIdle

\* parse returns.
ParseReturn(result) ==
    /\ mpc' = "returned"
    /\ parse_result' = result

\* Line 60: fs::read_to_string(path)?.
ReadMetadata(read_ok) ==
    /\ mpc = "read"
    /\ IF read_ok
       THEN /\ mpc' = "deserialize"
            /\ UNCHANGED parse_result
       ELSE ParseReturn(ParseErr("io::Error"))
    /\ UNCHANGED <<raw_metadata, deserialized, validation, normalizer>>
    /\ UNCHANGED <<branchVars, extractVars, diskVars, pairVars, runVars, resolveVars, deleteVars, rerunVars>>

\* parse goes on with an empty document when deserialization fails.
DeserializeFailed_Defaulting(error) ==
    /\ mpc' = "validate"
    /\ deserialized' = [shape |-> "IndividualPairsMetadata", pairs |-> <<>>]
    /\ UNCHANGED parse_result

\* The ? of line 61 on an Err.
DeserializeFailed(error) ==
    /\ ParseReturn(ParseErr(error))
    /\ UNCHANGED deserialized

\* Line 61: serde_json::from_str(&raw_metadata)?.
Deserialize ==
    /\ mpc = "deserialize"
    /\ LET result == from_str(raw_metadata)
       IN  IF result.kind = "err"
           THEN DeserializeFailed(result.val)
           ELSE /\ mpc' = "validate"
                /\ deserialized' = result.val
                /\ UNCHANGED parse_result
    /\ UNCHANGED <<raw_metadata, validation, normalizer>>
    /\ UNCHANGED <<branchVars, extractVars, diskVars, pairVars, runVars, resolveVars, deleteVars, rerunVars>>

\* parse ignores what validate_metadata returned.
ValidationFailureReturns_Never(result) == FALSE

\* The ? of line 64.
ValidationFailureReturns(result) == result.kind = "err"

\* Line 64: validate_metadata(&metadata)?. Whether the schema accepts the
\* document, and the state of the schema file, are the environment's.
Validate(content, schema_file) ==
    /\ mpc = "validate"
    /\ LET result == validate_metadata(content, schema_file)
       IN  /\ validation' = result
           /\ IF ValidationFailureReturns(result)
              THEN ParseReturn(result)
              ELSE /\ mpc' = "match"
                   /\ UNCHANGED parse_result
    /\ UNCHANGED <<raw_metadata, deserialized, normalizer>>
    /\ UNCHANGED <<branchVars, extractVars, diskVars, pairVars, runVars, resolveVars, deleteVars, rerunVars>>

\* Lines 67-79: the match on the shape of the document.
Normalize ==
    /\ mpc = "match"
    /\ IF deserialized.shape = "IndividualPairsMetadata"
       THEN /\ normalizer' = "parse_individual"
            /\ ParseReturn(ParseOk(parse_individual(deserialized.pairs)))
       ELSE /\ normalizer' = "parse_project"
            /\ ParseReturn(ParseOk(parse_project(deserialized.pairs,
                                                 deserialized.project_information)))
    /\ UNCHANGED <<raw_metadata, deserialized, validation>>
    /\ UNCHANGED <<branchVars, extractVars, diskVars, pairVars, runVars, resolveVars, deleteVars, rerunVars>>

NextParse ==
    \/ \E read_ok \in BOOLEAN : ReadMetadata(read_ok)
    \/ Deserialize
    \/ \E content \in {"valid", "invalid"}, schema_file \in SchemaStates :
          Validate(content, schema_file)
    \/ Normalize

SpecParse == InitParse /\ [][NextParse]_vars

----------------------------------------------------------------------------
(* The resolver functions on their own: get_repository_name of utils.rs    *)
(* and of utils/repositories.rs, and get_repository_owner, each called     *)
(* with one url.                                                           *)

\* "github.com"
GITHUB_COM == GITHUB \o <<".", "c", "o", "m">>

\* The urls the functions are called with: https://<host>/<owner>/<repo>
\* followed by nothing, ".git", "/", ".git/" or "//", for the hosts
\* github.com and gitlab.com, the owners "uu" and "github" and the
\* repositories "ls", "eza" and "github-pages"; and strings that are not of
\* that form: "", "/", "github", "github/", "github.com", "ls.git",
\* "gitlab.com".
ResolverUrls ==
    LET https == <<"h", "t", "t", "p", "s", ":", "/", "/">>
        gitlab_com == <<"g", "i", "t", "l", "a", "b", ".", "c", "o", "m">>
        hosts == {GITHUB_COM, gitlab_com}
        owners == {<<"u", "u">>, GITHUB}
        repositories ==
            {<<"l", "s">>, <<"e", "z", "a">>, GITHUB \o <<"-", "p", "a", "g", "e", "s">>}
        suffixes == {<<>>, DOT_GIT, <<"/">>, DOT_GIT \o <<"/">>, <<"/", "/">>}
        others ==
            {<<>>, <<"/">>, GITHUB, GITHUB \o <<"/">>, GITHUB_COM, <<"l", "s">> \o DOT_GIT,
             gitlab_com}
    IN  {ResolverUrl("hosted", https \o h \o <<"/">> \o o \o <<"/">> \o r \o x, h, o, r, x) :
            h \in hosts, o \in owners, r \in repositories, x \in suffixes}
        \cup {ResolverUrl("other", t, <<>>, <<>>, <<>>, <<>>) : t \in others}

\* Some caller is about to pass a url to the functions.
InitResolve ==
    /\ resolver_url \in ResolverUrls
    /\ name_result = [utils |-> NoResolution, repositories |-> NoResolution]
    /\ owner_result = NoResolution
    /\ BranchIdle
    /\ ExtractIdle
    /\ DiskIdle
    /\ PairIdle
    /\ RunIdle
    /\ ParseIdle
    /\ DeleteIdle
    /\ RerunIdle

\* utils::get_repository_name(url) is called and returns.
GetRepositoryName ==
    /\ name_result.utils.kind = "none"
    /\ name_result' = [name_result EXCEPT !.utils = get_repository_name(resolver_url.text)]
    /\ UNCHANGED <<resolver_url, owner_result>>
    /\ UNCHANGED <<branchVars, extractVars, diskVars, pairVars, runVars, parseVars, deleteVars, rerunVars>>

\* repositories::get_repository_name(url) is called and returns.
RepositoriesGetRepositoryName ==
    /\ name_result.repositories.kind = "none"
    /\ name_result' =
           [name_result EXCEPT
               !.repositories = repositories_get_repository_name(resolver_url.text)]
    /\ UNCHANGED <<resolver_url, owner_result>>
    /\ UNCHANGED <<branchVars, extractVars, diskVars, pairVars, runVars, parseVars, deleteVars, rerunVars>>

\* repositories::get_repository_owner(url) is called and returns or panics.
GetRepositoryOwner ==
    /\ owner_result.kind = "none"
    /\ owner_result' = get_repository_owner(resolver_url.text)
    /\ UNCHANGED <<resolver_url, name_result>>
    /\ UNCHANGED <<branchVars, extractVars, diskVars, pairVars, runVars, parseVars, deleteVars, rerunVars>>

NextResolve ==
    \/ GetRepositoryName
    \/ RepositoriesGetRepositoryName
    \/ GetRepositoryOwner

SpecResolve == InitResolve /\ [][NextResolve]_vars

----------------------------------------------------------------------------
(* The delete command, lib.rs, run between calls of download_program_pair  *)
(* on the disk they leave.                                                 *)

\* The most commands, downloads of a pair and deletes, run on the disk.
MaxCommands == 3

\* Path::exists is true of every path.
PathExists_Always(existing, path) == TRUE

\* Path::new(path).exists(), lines 58 and 61.
PathExists(existing, path) == path \in existing

\* fs::remove_dir_all(path), lines 59 and 62: an io::Error when the path is
\* not there or when the removal fails.
RemoveDirAll(existing, path, io_ok) ==
    IF path \notin existing THEN Err(DownloadError("io::Error", path, "NotFound"))
    ELSE IF ~io_ok THEN Err(DownloadError("io::Error", path, "PermissionDenied"))
    ELSE OK_UNIT

\* lib.rs delete, lines 57-65. programs_ok and clones_ok say whether a
\* remove_dir_all of an existing directory succeeds.
Delete(programs_ok, clones_ok) ==
    /\ ppc = "idle"
    /\ downloads + deletes < MaxCommands
    /\ deletes' = deletes + 1
    /\ LET programs_removed ==
               IF PathExists(roots, "programs")
               THEN RemoveDirAll(roots, "programs", programs_ok)
               ELSE OK_UNIT
           clones_removed ==
               IF PathExists(roots, "repository_clones")
               THEN RemoveDirAll(roots, "repository_clones", clones_ok)
               ELSE OK_UNIT
       IN  IF programs_removed.kind = "err"
           THEN /\ delete_result' = programs_removed
                /\ UNCHANGED <<programs, repository_clones, roots>>
           ELSE IF clones_removed.kind = "err"
           THEN /\ delete_result' = clones_removed
                /\ programs' = <<>>
                /\ roots' = roots \ {"programs"}
                /\ UNCHANGED repository_clones
           ELSE /\ delete_result' = OK_UNIT
                /\ programs' = <<>>
                /\ repository_clones' = <<>>
                /\ roots' = {}
    /\ UNCHANGED <<program_directory, opened_repository>>
    /\ UNCHANGED <<branchVars, extractVars, pairVars, runVars, parseVars, resolveVars, rerunVars>>

\* download_program_pair is called for some pair, as a run does.
DownloadCommand(p) ==
    /\ downloads + deletes < MaxCommands
    /\ StartPair(p)
    /\ UNCHANGED <<runVars, parseVars, resolveVars, deleteVars, rerunVars>>

NextDelete ==
    \/ \E p \in DOMAIN PAIRS : DownloadCommand(p)
    \/ \E c_ok \in BOOLEAN, rust_ok \in BOOLEAN : CreateDirs(c_ok, rust_ok)
    \/ \E clone \in CloneOutcomes : Acquire(clone)
    \/ \E io_ok \in BOOLEAN : CopyEntry(io_ok)
    \/ \E f \in FsFiles, io_ok \in BOOLEAN : WalkEntry(f, io_ok)
    \/ WalkEnd
    \/ ExtractDone
    \/ SideReturn
    \/ \E programs_ok \in BOOLEAN, clones_ok \in BOOLEAN : Delete(programs_ok, clones_ok)

\* Downloads and deletes on one disk, starting with none of the two
\* directories.
SpecDelete == InitPair /\ [][NextDelete]_vars

----------------------------------------------------------------------------
(* A run followed by a second run over the same metadata, on the disk the  *)
(* first run left: each run calls download_program_pair for the pairs in   *)
(* order and goes on after a pair that failed. The network and the file    *)
(* system fail neither run: a pair fails for what its metadata name, an    *)
(* entry without a file name or a path the repository does not hold.       *)

\* Pairs the metadata files of a run hold.
MaxRerunPairs == 2

\* The metadata of the two runs: a non-empty list of pairs.
InitRerun ==
    /\ DiskIdle
    /\ PairIdle
    /\ ExtractIdle
    /\ BranchIdle
    /\ RunIdle
    /\ ParseIdle
    /\ ResolveIdle
    /\ DeleteIdle
    /\ rerun_pairs \in SeqsUpTo(DOMAIN PAIRS, MaxRerunPairs) \ {<<>>}
    /\ rerun_log = <<>>
    /\ first_run = [programs |-> <<>>, repository_clones |-> <<>>]

\* downloader.rs lines 140-141: the call of download_program_pair for the
\* next pair of the run; after the last pair of the first run comes the
\* first pair of the second.
RerunPair ==
    /\ Len(rerun_log) = downloads
    /\ downloads < 2 * Len(rerun_pairs)
    /\ StartPair(rerun_pairs[(downloads % Len(rerun_pairs)) + 1])
    /\ UNCHANGED runVars

\* Lines 141-144: download_program_pair has returned; an error is reported
\* and the loop goes on. When the last pair of the first run has returned,
\* the disk is as the first run leaves it.
RerunReturn ==
    /\ ppc = "idle"
    /\ Len(rerun_log) < downloads
    /\ rerun_log' = Append(rerun_log, pairResult)
    /\ first_run' = IF Len(rerun_log') = Len(rerun_pairs)
                    THEN [programs |-> programs, repository_clones |-> repository_clones]
                    ELSE first_run
    /\ UNCHANGED rerun_pairs
    /\ UNCHANGED <<branchVars, extractVars, diskVars, pairVars, runVars, parseVars, resolveVars,
                   deleteVars>>

NextRerun ==
    \/ RerunPair
    \/ CreateDirs(TRUE, TRUE)
    \/ Acquire("ok")
    \/ CopyEntry(TRUE)
    \/ \E f \in FsFiles : WalkEntry(f, TRUE)
    \/ WalkEnd
    \/ ExtractDone
    \/ SideReturn
    \/ RerunReturn

SpecRerun == InitRerun /\ [][NextRerun]_vars

----------------------------------------------------------------------------
(* Claims about the file extractor.                                        *)

\* The text ends in the suffix, after at least one character of a file name.
EndsWith(text, suffix) ==
    /\ Len(text) > Len(suffix)
    /\ \A i \in 1..Len(suffix) : text[Len(text) - Len(suffix) + i] = suffix[i]
    /\ text[Len(text) - Len(suffix)] # "/"

\* C10: extracting a directory copies into the destination exactly the files
\* under it, at any depth, whose extension is c, h or rs, and no other file;
\* for src (a.c, b.rs, c.txt, sub/d.c) the destination receives a.c, b.rs and
\* sub/d.c under the flattened name sub-d.c, never c.txt.
C10_DirectoryExtractionCopiesExactlySourceFiles ==
    walkState = "done" =>
        /\ {c.file : c \in walkCopies}
               = {f \in FsFiles :
                      LET prefix == Text(REPOSITORY_DIRECTORY) \o <<"/">> \o Text(walkDir)
                                        \o <<"/">>
                      IN  /\ Len(Text(f)) > Len(prefix)
                          /\ \A i \in 1..Len(prefix) : Text(f)[i] = prefix[i]
                          /\ \/ EndsWith(Text(f), <<".", "c">>)
                             \/ EndsWith(Text(f), <<".", "h">>)
                             \/ EndsWith(Text(f), <<".", "r", "s">>)}
        /\ \A c \in walkCopies : c.name \in DOMAIN Dest
        /\ walkDir = "src" =>
               /\ walkCopies =
                      {[file |-> "w/src/a.c", name |-> <<"a", ".", "c">>],
                       [file |-> "w/src/b.rs", name |-> <<"b", ".", "r", "s">>],
                       [file |-> "w/src/sub/d.c",
                        name |-> <<"s", "u", "b", "-", "d", ".", "c">>]}
               /\ xpos = 2 => DOMAIN Dest = {c.name : c \in walkCopies}

\* C10's case: the directory src has been extracted into an empty destination.
C10_Witness ==
    /\ walkState = "done"
    /\ walkDir = "src"
    /\ xpos = 2
    /\ Cardinality(DOMAIN Dest) = 3
    /\ Dest[<<"s", "u", "b", "-", "d", ".", "c">>] = Content(opened_repository, "w/src/sub/d.c")

\* C11: a walked file is copied under its path relative to the walked
\* directory with each separator replaced by '-', and two distinct files
\* copied by one walk get distinct names, so that no copy overwrites another.
C11_FlattenedNamesAreUnique ==
    /\ \A c \in walkCopies :
           LET prefix == Text(REPOSITORY_DIRECTORY) \o <<"/">> \o Text(walkDir) \o <<"/">>
               relative == SubSeq(Text(c.file), Len(prefix) + 1, Len(Text(c.file)))
           IN  c.name = [i \in 1..Len(relative) |->
                            IF relative[i] = "/" THEN "-" ELSE relative[i]]
    /\ \A c1, c2 \in walkCopies : c1.file # c2.file => c1.name # c2.name

\* The characters of a path after its last separator.
LastSegment(text) ==
    LET seps == {i \in 1..Len(text) : text[i] = "/"}
        last == IF seps = {} THEN 0 ELSE CHOOSE i \in seps : \A j \in seps : j <= i
    IN  SubSeq(text, last + 1, Len(text))

\* The file of the working tree that a source_paths entry names, if it
\* names one.
FilesNamedBy(entry) ==
    {f \in FsFiles : Text(f) = Text(REPOSITORY_DIRECTORY) \o <<"/">> \o Text(entry)}

\* C12: a source_paths entry that names a file is copied into the
\* destination under its final path component, not its relative path,
\* whatever its extension.
C12_FileEntryIsCopiedUnderItsFileName ==
    /\ \A n \in DOMAIN Dest : \A i \in 1..Len(n) : n[i] # "/"
    /\ \A i \in 1..(xpos - 1) :
           FilesNamedBy(source_files[i]) # {} =>
               LastSegment(Text(source_files[i])) \in DOMAIN Dest
    /\ (xpos > 1 /\ walkState # "walking") =>
           \A f \in FilesNamedBy(source_files[xpos - 1]) :
               Dest[LastSegment(Text(source_files[xpos - 1]))] = Content(opened_repository, f)

\* C12's case: inc/main.c and lib/README have been copied, as main.c and
\* README.
C12_Witness ==
    /\ source_files = <<"inc/main.c", "lib/README">>
    /\ xpos = 3
    /\ DOMAIN Dest = {<<"m", "a", "i", "n", ".", "c">>, <<"R", "E", "A", "D", "M", "E">>}
    /\ Dest[<<"m", "a", "i", "n", ".", "c">>] = Content(opened_repository, "w/inc/main.c")
    /\ Dest[<<"R", "E", "A", "D", "M", "E">>] = Content(opened_repository, "w/lib/README")

----------------------------------------------------------------------------
(* Claims about the orchestrator.                                          *)

\* The pairs of a metadata file, as keys of attempts.
PairsOf(f) == {k \in PairKeys : k[1] = f[1] /\ k[2] = f[2]}

\* The pair loop of download_metadata_file is at a pair of the file.
InPairLoop(f) == rpc \in {"pairs", "call"} /\ CurrentFile = f

\* download_program_pair has been called for no pair.
NoPairAcquired == \A k \in PairKeys : attempts[k] = 0

\* C1: a pair whose download fails is reported on stderr with its name and
\* does not stop the run: the other pairs of its file and the pairs of every
\* later file are each attempted exactly once, and only a directory read
\* error ends the run early.
C1_PairFailureIsReportedAndSkipped ==
    /\ LET failed == SelectSeq([i \in 1..Len(fileResults) |-> i],
                                LAMBDA i : fileResults[i] = "err")
       IN  fileReports = [k \in 1..Len(failed) |-> PAIRS[metadata[failed[k]]].program_name]
    /\ rpc \in {"pairs", "call"} => Len(fileResults) = pairIdx - 1
    /\ runResult.kind = "err" => runResult.val.variant = "IoRead"
    /\ \A f \in FileKeys : \A k \in PairsOf(f) :
           /\ attempts[k] <= 1
           /\ parsed[f] # "ok" => attempts[k] = 0
           /\ (parsed[f] = "ok" /\ ~InPairLoop(f)) => attempts[k] = 1
           /\ InPairLoop(f) =>
                  attempts[k] = IF k[3] < pairIdx \/ (k[3] = pairIdx /\ rpc = "call")
                                THEN 1 ELSE 0

\* C1's case: a demo run in which pairs failed has returned Ok, every pair
\* of its two files attempted once.
C1_Witness ==
    /\ rpc = "returned"
    /\ runResult = OK_UNIT
    /\ directories = <<"demo">>
    /\ failures >= 1
    /\ \A k \in PairsOf(<<"demo", 1>>) \cup PairsOf(<<"demo", 2>>) : attempts[k] = 1
    /\ \E d \in DOMAIN programs : programs[d] # <<>>

\* C2: a metadata file that fails to parse is reported and skipped; the
\* files after it are parsed and their pairs downloaded, and the run returns
\* Ok for the directory unless a directory read fails.
C2_ParseFailureIsReportedAndSkipped ==
    /\ reported = {f \in FileKeys : parsed[f] = "failed"}
    /\ runResult.kind = "err" => runResult.val.variant = "IoRead"
    /\ rpc \in {"file", "pairs", "call"} =>
           \A f \in FileKeys :
               (f[1] = directories[dirIdx] /\ f[2] < fileIdx) => parsed[f] # "unseen"
    /\ runResult = OK_UNIT =>
           \A f \in FileKeys :
               (\E i \in DOMAIN directories : directories[i] = f[1]) =>
                   /\ parsed[f] # "unseen"
                   /\ parsed[f] = "ok" => \A k \in PairsOf(f) : attempts[k] = 1

\* C2's case: the first file of the demo directory failed to parse, the
\* second was parsed and its pair downloaded, and the run returned Ok.
C2_Witness ==
    /\ rpc = "returned"
    /\ runResult = OK_UNIT
    /\ directories = <<"demo">>
    /\ parsed[<<"demo", 1>>] = "failed"
    /\ <<"demo", 1>> \in reported
    /\ parsed[<<"demo", 2>>] = "ok"
    /\ attempts[<<"demo", 2, 1>>] = 1

\* C4, as the specification states it: an unreadable metadata directory and
\* a missing or corrupt schema file each abort the run with an error, and no
\* pair is acquired.
C4_SharedSetupErrorsAbortTheRun ==
    /\ (rpc = "returned" /\ dirIdx = 0) => (runResult.kind = "err" /\ NoPairAcquired)
    /\ schema # "ok" =>
           /\ NoPairAcquired
           /\ rpc = "returned" => runResult.kind = "err"

\* C4, as the code has it: a metadata directory that cannot be read ends the
\* run with an IoRead error, before any pair is acquired when count_files
\* meets it. A missing or corrupt schema file does not end the run: parse
\* fails for every metadata file, each is reported and skipped, no pair is
\* acquired, and the run returns Ok.
C4_SchemaErrorsFailEveryFile ==
    /\ (rpc = "returned" /\ dirIdx = 0) =>
           /\ runResult.kind = "err"
           /\ NoPairAcquired
           /\ \A f \in FileKeys : parsed[f] = "unseen"
    /\ runResult.kind = "err" => (rpc = "returned" /\ runResult.val.variant = "IoRead")
    /\ schema # "ok" =>
           /\ NoPairAcquired
           /\ \A f \in FileKeys : parsed[f] # "ok"
           /\ runResult = OK_UNIT =>
                  \A f \in FileKeys :
                      (\E i \in DOMAIN directories : directories[i] = f[1]) => f \in reported

\* C4's case: the schema file is missing, and the run over project and
\* individual has returned Ok with every file reported.
C4_Witness ==
    /\ schema = "missing"
    /\ rpc = "returned"
    /\ runResult = OK_UNIT
    /\ directories = <<"project", "individual">>
    /\ reported = {<<"project", 1>>, <<"project", 2>>, <<"individual", 1>>}
    /\ NoPairAcquired

----------------------------------------------------------------------------
(* Claims about the repository cache manager and download_program_pair.    *)

\* download_program_pair has returned.
PairReturned == ppc = "idle" /\ pair # 0

C5_CloneOnlyWhenNothingOpens ==
    /\ lastAcquire.cloned # "no" =>
           /\ lastAcquire.before = None
           /\ ~lastAcquire.opened
    /\ lastAcquire.before # None =>
           /\ lastAcquire.opened
           /\ lastAcquire.cloned = "no"
           /\ repository_clones[lastAcquire.path] = lastAcquire.before

\* C5's case: a later download acquires a repository cloned before.
C5_Witness ==
    /\ downloads >= 2
    /\ lastAcquire.before = lastAcquire.url
    /\ lastAcquire.opened
    /\ lastAcquire.cloned = "no"

\* download_files (ppc = "files") or download_program_pair (ppc = "idle")
\* has returned from the side the latest acquire was made for.
SideFailed == sideStatus.c = "failed" \/ sideStatus.rust = "failed"

----------------------------------------------------------------------------
(* Claims about the branch resolver.                                       *)

\* The key of the call that finished last.
LastKey == IF lastCall.url = None THEN NoKey ELSE KeyTable[lastCall.url]

\* C7: once a call has succeeded for a key, every later call for that key
\* returns the cached branch and sends no API request, and a cached entry is
\* never evicted or changed. (A later call is one that begins when the key is
\* cached: lastCall.start is the branch cached when the call began.)
C7_LaterCallsServedFromCache ==
    [][/\ lastCall'.start # None =>
             lastCall'.result = Ok(lastCall'.start) /\ lastCall'.req = 0
       /\ \A k \in DOMAIN BRANCH_CACHE :
             k \in DOMAIN BRANCH_CACHE' /\ BRANCH_CACHE'[k] = BRANCH_CACHE[k]]_vars

\* C8: a call whose API request fails returns an error and leaves the cache
\* unchanged with the key uncached; and a call for a key that is uncached
\* (so also a call after such a failure) sends an API request.
C8_ApiFailureLeavesKeyUncached ==
    [][/\ (/\ lastCall'.req = 1
           /\ \/ ~lastCall'.resp.sent
              \/ lastCall'.resp.status = "non2xx"
              \/ lastCall'.resp.body = "malformed") =>
             /\ lastCall'.result.kind = "err"
             /\ BRANCH_CACHE' = BRANCH_CACHE
             /\ KeyTable[lastCall'.url] \notin DOMAIN BRANCH_CACHE'
       /\ (lastCall' # lastCall /\ LastKey' # NoKey /\ lastCall'.start = None
           /\ LastKey' \notin DOMAIN BRANCH_CACHE) =>
             lastCall'.req = 1]_vars

\* C9: the lookup and the insert of one call are one critical section on
\* BRANCH_CACHE: at most one thread is between its lock and its return, it
\* holds the mutex, and a thread about to send an API request has its key
\* uncached, so no request follows a successful one for the same key.
C9_LookupAndInsertAreOneCriticalSection ==
    /\ Cardinality({t \in Threads : tpc[t] \in {"key", "api"}}) <= 1
    /\ \A t \in Threads : tpc[t] \in {"key", "api"} => lockHolder = {t}
    /\ \A t \in Threads : tpc[t] = "api" => KeyTable[turl[t]] \notin DOMAIN BRANCH_CACHE
    /\ lastCall.req = 1 => lastCall.start = None

\* C9's case: a caller that began while the key was uncached, waited for the
\* mutex while another caller fetched the branch, and was then served from
\* the cache without a request of its own.
C9_Witness ==
    /\ lastCall.start = None
    /\ lastCall.req = 0
    /\ lastCall.result.kind = "ok"
    /\ \E t \in Threads : t \notin lockHolder /\ tpc[t] = "idle"

----------------------------------------------------------------------------
(* Claims about the metadata normalizer.                                   *)

\* parse returned a Metadata.
Normalized == mpc = "returned" /\ normalizer # "none"

\* C13: a document that parse accepts gives a Metadata with as many pairs as
\* the pairs list of the document has entries, and a validated document
\* with no entry gives a Metadata with no pair, not an error.
C13_PairCountIsPreserved ==
    /\ Normalized =>
          /\ parse_result.kind = "ok"
          /\ Len(parse_result.pairs) = Len(raw_metadata.pairs)
    /\ (mpc = "returned" /\ validation.kind = "ok" /\ raw_metadata.pairs = <<>>) =>
          parse_result = ParseOk(<<>>)

\* An individual document of two entries has been normalized.
C13_Witness ==
    /\ Normalized
    /\ raw_metadata.shape = "individual"
    /\ Len(raw_metadata.pairs) = 2
    /\ Len(parse_result.pairs) = 2

\* The Features value each literal of the metadata files stands for.
FeaturesOf ==
    [rust_subset_of_c |-> "Subset",
     rust_equivalent_to_c |-> "Equivalent",
     rust_superset_of_c |-> "Superset",
     overlapping |-> "Overlapping"]

\* C14: every ProgramPair of a project document has the translation tools,
\* the feature relationship and both sides' documentation and repository
\* urls of the project_information block; its name, its description and
\* each side's source paths are those of its own entry.
C14_ProjectBroadcastIsUniform ==
    (Normalized /\ raw_metadata.shape = "project") =>
        LET information == raw_metadata.project_information
        IN  \A i \in 1..Len(raw_metadata.pairs) :
               LET entry == raw_metadata.pairs[i]
                   canonical == parse_result.pairs[i]
               IN  /\ canonical.translation_tools = information.translation_tools
                   /\ canonical.feature_relationship =
                          FeaturesOf[information.feature_relationship]
                   /\ canonical.c_program.documentation_url =
                          information.c_program.documentation_url
                   /\ canonical.c_program.repository_url =
                          information.c_program.repository_url
                   /\ canonical.rust_program.documentation_url =
                          information.rust_program.documentation_url
                   /\ canonical.rust_program.repository_url =
                          information.rust_program.repository_url
                   /\ canonical.program_name = entry.program_name
                   /\ canonical.program_description = entry.program_description
                   /\ canonical.c_program.source_paths = entry.c_program.source_paths
                   /\ canonical.rust_program.source_paths = entry.rust_program.source_paths

\* A project document of two different entries has been normalized.
C14_Witness ==
    /\ Normalized
    /\ raw_metadata.shape = "project"
    /\ Len(parse_result.pairs) = 2
    /\ parse_result.pairs[1].program_name # parse_result.pairs[2].program_name
    /\ parse_result.pairs[1].c_program.source_paths # parse_result.pairs[2].c_program.source_paths
    /\ parse_result.pairs[2].translation_tools = <<"c2rust", "manual">>

\* C15: the i-th ProgramPair of an individual document has the fields of
\* the i-th entry, and entries with different feature_relationship literals
\* get different Features values.
C15_IndividualEntriesMapFieldForField ==
    (Normalized /\ raw_metadata.shape = "individual") =>
        /\ \A i \in 1..Len(raw_metadata.pairs) :
              LET entry == raw_metadata.pairs[i]
                  canonical == parse_result.pairs[i]
              IN  /\ canonical.program_name = entry.program_name
                  /\ canonical.program_description = entry.program_description
                  /\ canonical.translation_tools = entry.translation_tools
                  /\ canonical.feature_relationship = FeaturesOf[entry.feature_relationship]
                  /\ canonical.c_program =
                         [language |-> "C",
                          documentation_url |-> entry.c_program.documentation_url,
                          repository_url |-> entry.c_program.repository_url,
                          source_paths |-> entry.c_program.source_paths]
                  /\ canonical.rust_program =
                         [language |-> "Rust",
                          documentation_url |-> entry.rust_program.documentation_url,
                          repository_url |-> entry.rust_program.repository_url,
                          source_paths |-> entry.rust_program.source_paths]
        /\ \A i, j \in 1..Len(raw_metadata.pairs) :
              raw_metadata.pairs[i].feature_relationship
                      # raw_metadata.pairs[j].feature_relationship
                  => parse_result.pairs[i].feature_relationship
                         # parse_result.pairs[j].feature_relationship

\* An individual document whose two entries differ in name, source paths
\* and feature relationship has been normalized.
C15_Witness ==
    /\ Normalized
    /\ raw_metadata.shape = "individual"
    /\ Len(parse_result.pairs) = 2
    /\ raw_metadata.pairs[1].feature_relationship = "rust_superset_of_c"
    /\ raw_metadata.pairs[2].feature_relationship = "rust_subset_of_c"
    /\ parse_result.pairs[1].program_name # parse_result.pairs[2].program_name
    /\ parse_result.pairs[1].c_program.source_paths # parse_result.pairs[2].c_program.source_paths

\* C16: parse_individual and parse_project run only in a step that starts
\* after validate_metadata returned Ok, and once validate_metadata has
\* returned an error parse has returned that error, with no Metadata.
C16_ValidationPrecedesNormalization ==
    /\ [][normalizer' # normalizer => validation.kind = "ok" /\ validation' = validation]_vars
    /\ [](validation.kind = "err" =>
             /\ mpc = "returned"
             /\ normalizer = "none"
             /\ parse_result = validation
             /\ parse_result.pairs = <<>>)

\* The schema rejected a document with entries, and parse has returned.
C16_Witness ==
    /\ mpc = "returned"
    /\ validation = ParseErr("Failed to validate metadata")
    /\ raw_metadata.pairs # <<>>
    /\ deserialized # NoDocument

\* C17: a document with an unknown feature_relationship literal is never
\* deserialized, validated or normalized, and parse returns an error for it.
C17_UnknownLiteralIsAParseError ==
    (/\ raw_metadata.shape \in {"individual", "project"}
     /\ \E l \in LiteralsOf(raw_metadata) : l \notin DOMAIN FeaturesOf) =>
        /\ deserialized = NoDocument
        /\ normalizer = "none"
        /\ parse_result.kind # "ok"
        /\ mpc \in {"read", "deserialize", "returned"}
        /\ mpc = "returned" => parse_result.kind = "err"

\* parse returned the deserialization error for an individual document
\* whose second entry has an unknown literal.
C17_Witness ==
    /\ mpc = "returned"
    /\ parse_result = ParseErr("serde_json::Error")
    /\ raw_metadata.shape = "individual"
    /\ Len(raw_metadata.pairs) = 2
    /\ raw_metadata.pairs[1].feature_relationship = "overlapping"
    /\ raw_metadata.pairs[2].feature_relationship = "identical"

----------------------------------------------------------------------------
(* Claims about the repository name/owner resolver.                        *)

\* C18: both get_repository_name functions return Ok for every url, and for
\* a url https://<host>/<owner>/<repo> followed by nothing, by ".git" or by
\* slashes the value is <repo>.
C18_RepositoryNameIsLastSegment ==
    \A f \in {"utils", "repositories"} :
        /\ name_result[f].kind \in {"none", "ok"}
        /\ (resolver_url.form = "hosted" /\ name_result[f].kind = "ok") =>
               name_result[f].val = resolver_url.repo

\* Both functions have returned for a url that ends in ".git".
C18_Witness ==
    /\ resolver_url.form = "hosted"
    /\ resolver_url.suffix = DOT_GIT
    /\ resolver_url.repo = <<"e", "z", "a">>
    /\ name_result.utils = Ok(<<"e", "z", "a">>)
    /\ name_result.repositories = Ok(<<"e", "z", "a">>)

\* C19: for a url https://<host>/<owner>/<repo>, with or without ".git",
\* get_repository_owner returns <owner> when the host is github.com and an
\* error when it is another host.
C19_OwnerOnlyForRecognizedHost ==
    (resolver_url.form = "hosted" /\ owner_result.kind # "none") =>
        IF resolver_url.host = GITHUB_COM
        THEN owner_result.kind = "ok" /\ owner_result.val = resolver_url.owner
        ELSE owner_result.kind = "err"

\* C20: neither get_repository_name nor get_repository_owner panics,
\* whatever the string they are called with.
C20_ResolverNeverPanics ==
    /\ owner_result.kind # "panic"
    /\ \A f \in {"utils", "repositories"} : name_result[f].kind # "panic"

----------------------------------------------------------------------------
(* Claims about the delete command.                                        *)

\* C21: a call of delete fails only when the removal of a directory that
\* exists fails; when it succeeds neither programs/ nor repository_clones/
\* is left, with nothing in them; and when neither is there it succeeds and
\* changes nothing, as a second delete in a row does.
C21_DeleteRemovesBothRootsAndIsIdempotent ==
    [][deletes' # deletes =>
          /\ delete_result'.kind \in {"ok", "err"}
          /\ delete_result'.kind = "err" =>
                 /\ delete_result'.val.error = "PermissionDenied"
                 /\ delete_result'.val.about \in roots
          /\ delete_result'.kind = "ok" =>
                 /\ roots' = {}
                 /\ programs' = <<>>
                 /\ repository_clones' = <<>>
          /\ roots = {} => delete_result' = OK_UNIT /\ UNCHANGED diskVars]_vars

\* A pair was downloaded from a clone made for it, and after two calls of
\* delete, the last of them successful, nothing is on the disk.
C21_Witness ==
    /\ deletes = 2
    /\ downloads = 1
    /\ ppc = "idle"
    /\ pairResult = OK_UNIT
    /\ delete_result = OK_UNIT
    /\ roots = {}
    /\ programs = <<>>
    /\ repository_clones = <<>>

----------------------------------------------------------------------------
(* Further claims about the repository cache manager, the extractor and    *)
(* the branch resolver.                                                    *)

\* C22: the repository download_files copies from is a clone of the
\* repository_url of the Program it is called for: no other url of the same
\* language has the same cache path.
C22_WorkingTreeIsACloneOfTheProgramsUrl ==
    (ppc = "files" /\ (lastAcquire.opened \/ lastAcquire.cloned = "ok")) =>
        /\ opened_repository = ProgramOf(pair, side).repository_url
        /\ lastAcquire.opened => lastAcquire.before = lastAcquire.url

\* C23, as the specification states it: when an entry of source_files
\* fails, the entries after it are still copied.
C23_FailedEntryDoesNotAbortSiblings ==
    (ppc = "files" /\ xresult.kind = "err") =>
        \A i \in (xpos + 1)..Len(source_files) :
            IsFile(SourceOf(source_files[i])) =>
                FileName(Text(source_files[i]))[1] \in DOMAIN Dest

\* C23, as the code has it: the error of an entry (no file name, a missing
\* path, a failed copy) ends download_files with that error. The entries
\* after it are not attempted, what was copied before it stays, and
\* download_files returns Ok only when every entry was a file or a
\* directory of the repository.
C23_FailedEntryEndsTheExtraction ==
    /\ [](ppc = "files" =>
            /\ xresult.kind = "err" => xpos <= Len(source_files)
            /\ xresult = OK_UNIT =>
                   \A i \in 1..Len(source_files) :
                       /\ FileName(Text(source_files[i])) # NONE
                       /\ \/ IsDir(SourceOf(source_files[i]))
                          \/ /\ IsFile(SourceOf(source_files[i]))
                             /\ FileName(Text(source_files[i]))[1] \in DOMAIN Dest)
    /\ [][(ppc = "files" /\ xresult # Pending) => UNCHANGED <<programs, xpos>>]_vars

\* C23's case: the first entry names no file of the repository, the second
\* names one, and download_files returned the error of the first with
\* nothing copied.
C23_Witness ==
    /\ ppc = "files"
    /\ source_files = <<"missing.c", "main.c">>
    /\ xresult.kind = "err"
    /\ xpos = 1
    /\ DOMAIN Dest = {}

\* C24: while a repository of a pair is acquired or its files are copied,
\* and after the pair returned from a failed or a finished acquisition or
\* extraction, both destination directories of the pair exist under
\* programs/.
C24_DestinationDirectoriesComeFirst ==
    (pair # 0 /\ (ppc \in {"acquire", "files"} \/ sideStatus.c # "none")) =>
        /\ ProgramPath(PAIRS[pair].program_name, "c") \in DOMAIN programs
        /\ ProgramPath(PAIRS[pair].program_name, "rust") \in DOMAIN programs
        /\ "programs" \in roots

\* C24's case: the first pair downloaded returned with the clone of its C
\* side failed; both its directories exist and are empty.
C24_Witness ==
    /\ downloads = 1
    /\ ppc = "idle"
    /\ sideStatus.c = "failed"
    /\ ~lastAcquire.opened
    /\ lastAcquire.cloned # "ok"
    /\ pairResult.kind = "err"
    /\ programs[ProgramPath(PAIRS[pair].program_name, "c")] = <<>>
    /\ programs[ProgramPath(PAIRS[pair].program_name, "rust")] = <<>>

\* C25: every file download_files copied lies inside the working tree of
\* the cloned repository.
C25_CopiedFilesLieInsideTheRepository ==
    ppc = "files" =>
        \A name \in DOMAIN Dest :
            IsPrefix(Components(Text(REPOSITORY_DIRECTORY)), Components(Text(Dest[name].file)))

\* C26: a pair whose name another pair has is processed like any other. Its
\* files go to the directories named after the pair and the side, the only
\* errors are those of creating a directory, cloning and copying, and the
\* file entry copied last holds the file of the repository now open,
\* whatever an earlier pair wrote under that name.
C26_DuplicateNamesShareDirectoriesLastWriterWins ==
    /\ (ppc = "files" /\ (lastAcquire.opened \/ lastAcquire.cloned = "ok")) =>
           /\ program_directory = ProgramPath(PAIRS[pair].program_name, side)
           /\ (xpos > 1 /\ IsFile(SourceOf(source_files[xpos - 1]))) =>
                  LET entry == source_files[xpos - 1]
                      file == CHOOSE f \in FsFiles :
                                  Components(Text(f)) = Resolve(Components(SourceOf(entry)))
                  IN  Dest[FileName(Text(entry))[1]] = Content(opened_repository, file)
    /\ pairResult.kind = "err" =>
           pairResult.val.variant \in {"IoCreate", "CloneRepository", "Io", "IoCopy"}

\* C26's case: a pair named eza filled both directories of eza, and main.c
\* of the C side now holds the file of the repository of a second pair
\* named eza.
C26_Witness ==
    /\ pair = 3
    /\ side = "c"
    /\ ppc = "files"
    /\ xpos = 2
    /\ program_directory = <<"eza", "c-program">>
    /\ programs[<<"eza", "rust-program">>] # <<>>
    /\ opened_repository = "URL_GIT"
    /\ Dest[Text("main.c")] = Content("URL_GIT", "w/main.c")

\* C27: the urls https://github.com/ez/eza.git and https://github.com/ez/eza/
\* have one cache key, (ez, eza), and a call for either that begins when the
\* key is cached returns the cached branch and sends no API request.
C27_SuffixAndSlashShareACacheEntry ==
    /\ KeyTable["URL_GIT"] = <<<<"e", "z">>, <<"e", "z", "a">>>>
    /\ KeyTable["URL_SLASH"] = KeyTable["URL_GIT"]
    /\ (lastCall.url \in {"URL_GIT", "URL_SLASH"} /\ lastCall.start # None) =>
           lastCall.result = Ok(lastCall.start) /\ lastCall.req = 0

\* C28: the mutex of BRANCH_CACHE is released by every call that has ended,
\* however it ended, and a call with a well-formed url of the recognized
\* host never fails at the lock because of an earlier call.
C28_BranchCacheStaysUsable ==
    /\ \A t \in Threads : tpc[t] \in {"idle", "lock", "panicked"} => t \notin lockHolder
    /\ lastCall.url \in {"URL_GIT", "URL_SLASH", "URL_OTHER_OWNER"} =>
           lastCall.result.kind # "panic"

\* C29: in one call of download_files, files named by different entries of
\* source_files have different destination names: two file entries copied
\* so far, and a file entry and a file of a walked directory.
C29_EntriesWriteDifferentDestinations ==
    ppc = "files" =>
        LET copied == {i \in 1..(xpos - 1) : IsFile(SourceOf(source_files[i]))}
        IN  /\ \A i, j \in copied :
                   source_files[i] # source_files[j] =>
                       FileName(Text(source_files[i])) # FileName(Text(source_files[j]))
            /\ \A i \in copied, c \in walkCopies :
                   source_files[i] # walkDir =>
                       c.name # FileName(Text(source_files[i]))[1]

\* C30: when a run and a second run over the same metadata have both
\* ended, programs/ and repository_clones/ are as the first run left them:
\* the same directories, the same files, the same contents. Every call of
\* the second run returned what the call for that pair returned in the
\* first.
C30_SecondRunLeavesTheDiskAsTheFirst ==
    Len(rerun_log) = 2 * Len(rerun_pairs) =>
        /\ programs = first_run.programs
        /\ repository_clones = first_run.repository_clones
        /\ \A i \in 1..Len(rerun_pairs) : rerun_log[Len(rerun_pairs) + i] = rerun_log[i]

\* C30's case: the metadata hold the pairs eza and ls; both runs downloaded
\* both, the second from the clones the first made, and the files are
\* there.
C30_Witness ==
    /\ rerun_pairs = <<1, 2>>
    /\ rerun_log = <<OK_UNIT, OK_UNIT, OK_UNIT, OK_UNIT>>
    /\ lastAcquire.opened
    /\ DOMAIN programs[<<"eza", "rust-program">>] # {}
    /\ DOMAIN programs[<<"ls", "c-program">>] # {}
    /\ programs = first_run.programs

====
